---- MODULE Spec2Model ----
(***************************************************************************)
(* Decision-tree induction (C4.5, TSP, WTSP) and the interactive tree      *)
(* mutation engine (TreeEngine + TreeEngineProvider).                       *)
(*                                                                         *)
(* Numbers are JavaScript numbers restricted to rationals: a record        *)
(* [n, d] in lowest terms with d > 0; d = 0 encodes NaN (n = 0),           *)
(* +Infinity (n = 1) and -Infinity (n = -1).  Strings are sequences of     *)
(* one-character strings so that Number(string) and String(number) are     *)
(* computed, not assumed.  Entropies are in milli-bits (Math.log2 rounded  *)
(* to three decimals); gains and gain ratios are rationals over them.      *)
(***************************************************************************)
EXTENDS Integers, Sequences, FiniteSets

(* ---------------------------- bounds ----------------------------------- *)
MaxOps == 1

(* ------------------------- JavaScript numbers -------------------------- *)
Abs(x) == IF x < 0 THEN -x ELSE x

RECURSIVE Gcd(_, _)
Gcd(a, b) == IF b = 0 THEN a ELSE Gcd(b, a % b)

NaN == [n |-> 0, d |-> 0]

IsNaN(x) == x.d = 0 /\ x.n = 0

Num(a, b) ==
  IF b = 0 THEN [n |-> IF a > 0 THEN 1 ELSE IF a < 0 THEN -1 ELSE 0, d |-> 0]
  ELSE LET s == IF b < 0 THEN -1 ELSE 1
           g == Gcd(Abs(a), Abs(b))
       IN [n |-> (s * a) \div g, d |-> (s * b) \div g]

Int2Num(i) == [n |-> i, d |-> 1]

\* x < y on JavaScript numbers (false whenever an operand is NaN)
NumLt(x, y) ==
  IF IsNaN(x) \/ IsNaN(y) THEN FALSE
  ELSE IF x.d = 0 /\ y.d = 0 THEN x.n < y.n
  ELSE IF x.d = 0 THEN x.n < 0
  ELSE IF y.d = 0 THEN y.n > 0
  ELSE x.n * y.d < y.n * x.d

NumEq(x, y) == ~IsNaN(x) /\ ~IsNaN(y) /\ x = y

NumLe(x, y) == NumLt(x, y) \/ NumEq(x, y)

NumAdd(x, y) ==
  IF IsNaN(x) \/ IsNaN(y) THEN NaN
  ELSE IF x.d = 0 /\ y.d = 0 THEN (IF x.n = y.n THEN x ELSE NaN)
  ELSE IF x.d = 0 THEN x
  ELSE IF y.d = 0 THEN y
  ELSE Num(x.n * y.d + y.n * x.d, x.d * y.d)

NumNeg(x) == [n |-> -x.n, d |-> x.d]

NumSub(x, y) == NumAdd(x, NumNeg(y))

NumDiv(x, y) ==
  IF IsNaN(x) \/ IsNaN(y) THEN NaN
  ELSE IF x.d = 0 /\ y.d = 0 THEN NaN
  ELSE IF x.d = 0 THEN [n |-> IF y.n < 0 THEN -x.n ELSE x.n, d |-> 0]
  ELSE IF y.d = 0 THEN Int2Num(0)
  ELSE Num(x.n * y.d, x.d * y.n)

(* ------------------------- values and strings -------------------------- *)
Digits == <<"0", "1", "2", "3", "4", "5", "6", "7", "8", "9">>

IsDigit(c) == \E i \in 1..10 : Digits[i] = c

DigitVal(c) == (CHOOSE i \in 1..10 : Digits[i] = c) - 1

\* an attribute value: a number, a string, or undefined (the key is absent)
NumV(x) == [k |-> "num", x |-> x, s |-> <<>>]
StrV(s) == [k |-> "str", x |-> NaN, s |-> s]
Undef == [k |-> "undef", x |-> NaN, s |-> <<>>]

IntV(i) == NumV(Int2Num(i))

RECURSIVE DigitsToInt(_)
DigitsToInt(s) ==
  IF s = <<>> THEN 0
  ELSE 10 * DigitsToInt(SubSeq(s, 1, Len(s) - 1)) + DigitVal(s[Len(s)])

RECURSIVE Pow10(_)
Pow10(k) == IF k = 0 THEN 1 ELSE 10 * Pow10(k - 1)

AllDigits(s) == \A i \in 1..Len(s) : IsDigit(s[i])

\* Number(string) for decimal literals: [-]digits[.digits]; "" is 0
ParseUnsigned(s) ==
  LET dots == {i \in 1..Len(s) : s[i] = "."}
  IN IF dots = {} THEN
       IF s # <<>> /\ AllDigits(s) THEN Int2Num(DigitsToInt(s)) ELSE NaN
     ELSE IF Cardinality(dots) > 1 THEN NaN
     ELSE LET p == CHOOSE i \in dots : TRUE
              ip == SubSeq(s, 1, p - 1)
              fp == SubSeq(s, p + 1, Len(s))
          IN IF AllDigits(ip) /\ AllDigits(fp) /\ Len(ip) + Len(fp) > 0
             THEN Num(DigitsToInt(ip) * Pow10(Len(fp)) + DigitsToInt(fp), Pow10(Len(fp)))
             ELSE NaN

ParseNumber(s) ==
  IF s = <<>> THEN Int2Num(0)
  ELSE IF s[1] = "-" THEN
    (IF Len(s) = 1 THEN NaN ELSE NumNeg(ParseUnsigned(Tail(s))))
  ELSE ParseUnsigned(s)

\* Number(v)
ToNumber(v) ==
  IF v.k = "num" THEN v.x
  ELSE IF v.k = "str" THEN ParseNumber(v.s)
  ELSE NaN

RECURSIVE IntToDigits(_)
IntToDigits(i) ==
  IF i < 10 THEN <<Digits[i + 1]>>
  ELSE Append(IntToDigits(i \div 10), Digits[(i % 10) + 1])

MaxFracDigits == 6

RECURSIVE FracDigits(_, _, _)
FracDigits(r, d, k) ==
  IF r = 0 \/ k = 0 THEN <<>>
  ELSE <<Digits[((10 * r) \div d) + 1]>> \o FracDigits((10 * r) % d, d, k - 1)

\* String(number) for the decimals that terminate within MaxFracDigits
NumToString(x) ==
  IF IsNaN(x) THEN <<"N", "a", "N">>
  ELSE IF x.d = 0 THEN
    (IF x.n > 0 THEN <<"I", "n", "f", "i", "n", "i", "t", "y">>
     ELSE <<"-", "I", "n", "f", "i", "n", "i", "t", "y">>)
  ELSE LET a == Abs(x.n)
           body == IntToDigits(a \div x.d) \o
                   (IF a % x.d = 0 THEN <<>>
                    ELSE <<".">> \o FracDigits(a % x.d, x.d, MaxFracDigits))
       IN IF x.n < 0 THEN <<"-">> \o body ELSE body

\* String(v)
JsString(v) ==
  IF v.k = "str" THEN v.s
  ELSE IF v.k = "num" THEN NumToString(v.x)
  ELSE <<"u", "n", "d", "e", "f", "i", "n", "e", "d">>

\* strict equality ===
StrictEq(u, v) ==
  IF u.k # v.k THEN FALSE
  ELSE IF u.k = "num" THEN NumEq(u.x, v.x)
  ELSE IF u.k = "str" THEN u.s = v.s
  ELSE TRUE

(* ------------------------------ instances ------------------------------ *)
A == <<"a">>
B == <<"b">>
C == <<"c">>

\* the columns of the data sets, in the key order of instance.values
AttrOrder == <<A, B, C>>

AttrNames == {AttrOrder[i] : i \in 1..Len(AttrOrder)}

\* instance.class when the decision attribute has no value
NoClass == "<undefined>"

Inst(id, va, vb, vc, cls) ==
  [id |-> id, values |-> [t \in AttrNames |-> IF t = A THEN va ELSE IF t = B THEN vb ELSE vc],
   class |-> cls]

\* instance.values[key]
Lookup(instance, key) ==
  IF key \in AttrNames THEN instance.values[key] ELSE Undef

RECURSIVE SelectSeqBy(_, _)
\* Array.prototype.filter with the predicate given as a set of accepted elements
SelectSeqBy(seq, keep) ==
  IF seq = <<>> THEN <<>>
  ELSE IF Head(seq) \in keep THEN <<Head(seq)>> \o SelectSeqBy(Tail(seq), keep)
  ELSE SelectSeqBy(Tail(seq), keep)

Range(seq) == {seq[i] : i \in 1..Len(seq)}

(* ------------------------------ TreeUtils ------------------------------ *)
Conditions == {"<", ">", "==", "!=", "<=", ">="}

NoWeight == <<>>

MkTest(attr, cond, val, alg, ent, isAttr, w) ==
  [attribute |-> attr, condition |-> cond, value |-> val, algorithm |-> alg,
   entropy |-> ent, isValueAttribute |-> isAttr, weight |-> w]

NoTest == MkTest(<<>>, "none", Undef, "none", 0, FALSE, NoWeight)

\* rawCompareVal of evaluate
CompareVal(instance, test) ==
  IF test.isValueAttribute THEN Lookup(instance, JsString(test.value)) ELSE test.value

\* isNumericComparison of evaluate
IsNumericComparison(condition, na, nc) ==
  \/ condition \in {"<", ">", "<=", ">="}
  \/ (~IsNaN(na) /\ ~IsNaN(nc))

\* the switch of evaluate over the coerced operands: na, nc are Number(raw),
\* sa, sc are String(raw)
Compare(condition, na, nc, sa, sc) ==
  CASE condition = "<" -> NumLt(na, nc)
    [] condition = ">" -> NumLt(nc, na)
    [] condition = "==" ->
         IF IsNumericComparison(condition, na, nc) THEN NumEq(na, nc) ELSE sa = sc
    [] condition = "!=" ->
         IF IsNumericComparison(condition, na, nc) THEN ~NumEq(na, nc) ELSE sa # sc
    [] condition = "<=" -> NumLe(na, nc)
    [] condition = ">=" -> NumLe(nc, na)

\* TreeUtils.evaluate
evaluate(instance, test) ==
  Compare(test.condition,
          ToNumber(Lookup(instance, test.attribute)), ToNumber(CompareVal(instance, test)),
          JsString(Lookup(instance, test.attribute)), JsString(CompareVal(instance, test)))

\* a second filter that keeps an instance only when its attribute is a number
splitInstances_NumbersOnly(instances, test) ==
  << SelectSeqBy(instances, {i \in Range(instances) : evaluate(i, test)}),
     SelectSeqBy(instances, {i \in Range(instances) :
                               /\ ~evaluate(i, test)
                               /\ ~IsNaN(ToNumber(Lookup(i, test.attribute)))}) >>

\* TreeUtils.splitInstances
splitInstances(instances, test) ==
  << SelectSeqBy(instances, {i \in Range(instances) : evaluate(i, test)}),
     SelectSeqBy(instances, {i \in Range(instances) : ~evaluate(i, test)}) >>

\* Math.log2(k) in milli-bits
Log2Milli == <<0, 1000, 1585, 2000, 2322, 2585, 2807, 3000>>

RECURSIVE SumCLogC(_)
SumCLogC(dist) ==
  IF dist = <<>> THEN 0
  ELSE Head(dist).count * Log2Milli[Head(dist).count] + SumCLogC(Tail(dist))

RECURSIVE SumCounts(_)
SumCounts(dist) ==
  IF dist = <<>> THEN 0 ELSE Head(dist).count + SumCounts(Tail(dist))

\* a class distribution is the sequence of (label, count) in insertion order
computeEntropy(distribution) ==
  LET total == SumCounts(distribution)
  IN (total * Log2Milli[total] - SumCLogC(distribution)) \div total

ClassLabel(instance) == IF instance.class = NoClass THEN "Unknown" ELSE instance.class

RECURSIVE CountInto(_, _)
CountInto(dist, label) ==
  IF dist = <<>> THEN << [label |-> label, count |-> 1] >>
  ELSE IF Head(dist).label = label
       THEN << [label |-> label, count |-> Head(dist).count + 1] >> \o Tail(dist)
       ELSE << Head(dist) >> \o CountInto(Tail(dist), label)

RECURSIVE ClassCounts(_, _)
ClassCounts(instances, acc) ==
  IF instances = <<>> THEN acc
  ELSE ClassCounts(Tail(instances), CountInto(acc, ClassLabel(Head(instances))))

calculateStats(instances) ==
  LET classDistribution == ClassCounts(instances, <<>>)
      total == Len(instances)
  IN [totalInstances |-> Len(instances),
      entropy |-> IF total > 0 THEN computeEntropy(classDistribution) ELSE 0,
      classDistribution |-> classDistribution]

RECURSIVE MaxCountIndex(_, _, _)
\* index of the first entry with the largest count: entries sorted by count
\* descending with a stable sort, first taken
MaxCountIndex(dist, i, best) ==
  IF i > Len(dist) THEN best
  ELSE MaxCountIndex(dist, i + 1, IF dist[i].count > dist[best].count THEN i ELSE best)

MajorityClass(dist) ==
  IF dist = <<>> THEN "Unknown" ELSE dist[MaxCountIndex(dist, 1, 1)].label

NumMul(x, y) ==
  IF IsNaN(x) \/ IsNaN(y) THEN NaN
  ELSE IF x.d = 0 \/ y.d = 0 THEN
    (IF x.n = 0 \/ y.n = 0 THEN NaN
     ELSE [n |-> IF (x.n < 0) = (y.n < 0) THEN 1 ELSE -1, d |-> 0])
  ELSE Num(x.n * y.n, x.d * y.d)

(* ------------------------------- elements ------------------------------ *)
\* ids are 'node-<random>' / 'leaf-<random>': the random part is the pair of a
\* build generation and the position inside that build
MkId(kind, g, path) == [t |-> kind, g |-> g, p |-> path]

NoPrediction == "<absent>"

\* every element carries all fields; the ones its constructor does not set
\* hold the absent values NoTest, <<>>, NoPrediction
\* variant: a Leaf that can always be expanded
MkLeaf_AlwaysExpands(id, predicted, stats) ==
  [id |-> id, type |-> "leaf", statistics |-> stats,
   test |-> NoTest, alternativeSplits |-> <<>>, children |-> <<>>,
   predictedClass |-> predicted, classDistribution |-> stats.classDistribution,
   canExpand |-> TRUE]

\* the Leaf createLeafFromGroup returns
MkLeaf(id, predicted, stats) ==
  [id |-> id, type |-> "leaf", statistics |-> stats,
   test |-> NoTest, alternativeSplits |-> <<>>, children |-> <<>>,
   predictedClass |-> predicted, classDistribution |-> stats.classDistribution,
   canExpand |-> stats.entropy > 0]

MkNode(id, test, alts, children, stats) ==
  [id |-> id, type |-> "node", statistics |-> stats,
   test |-> test, alternativeSplits |-> alts, children |-> children,
   predictedClass |-> NoPrediction, classDistribution |-> <<>>, canExpand |-> FALSE]

\* variant: the first class seen is predicted, without the sort by count
createLeafFromGroup_FirstClass(instances, id) ==
  LET stats == calculateStats(instances)
  IN MkLeaf(id, IF stats.classDistribution = <<>> THEN "Unknown"
                ELSE stats.classDistribution[1].label, stats)

createLeafFromGroup(instances, id) ==
  LET stats == calculateStats(instances)
  IN MkLeaf(id, MajorityClass(stats.classDistribution), stats)

RECURSIVE findNodeById(_, _)
\* <<element>> when found, <<>> for null
findNodeById(current, nodeId) ==
  IF current.id = nodeId THEN <<current>>
  ELSE IF current.type = "node" THEN
    LET r0 == findNodeById(current.children[1], nodeId)
    IN IF r0 # <<>> THEN r0 ELSE findNodeById(current.children[2], nodeId)
  ELSE <<>>

(* ----------------------- induction: shared pieces ---------------------- *)
Take(seq, k) == IF Len(seq) <= k THEN seq ELSE SubSeq(seq, 1, k)

RECURSIVE Unique(_, _)
\* [...new Set(values)]
Unique(values, acc) ==
  IF values = <<>> THEN acc
  ELSE Unique(Tail(values), IF Head(values) \in Range(acc) THEN acc ELSE Append(acc, Head(values)))

\* comparator (a, b) => key(a) - key(b) returns a positive number
KeyGreater(a, b) == NumLt(Int2Num(0), NumSub(a.key, b.key))

RECURSIVE InsertSorted(_, _)
\* stable insertion: x goes before the first element that compares greater
InsertSorted(sorted, x) ==
  IF sorted = <<>> THEN <<x>>
  ELSE IF KeyGreater(Head(sorted), x) THEN <<x>> \o sorted
  ELSE <<Head(sorted)>> \o InsertSorted(Tail(sorted), x)

RECURSIVE SortKeyed(_, _)
\* Array.prototype.sort over [key, item] pairs; yields the items
SortKeyed(seq, acc) ==
  IF seq = <<>> THEN [i \in 1..Len(acc) |-> acc[i].item]
  ELSE SortKeyed(Tail(seq), InsertSorted(acc, Head(seq)))

\* the running search state of buildNode: bestTest (<<>> for null), bestGain,
\* bestSplits, alternativeSplits
InitSearch ==
  [bestTest |-> <<>>, bestGain |-> Int2Num(-1), bestSplits |-> <<>>, alternativeSplits |-> <<>>]

FourFifths == Num(8, 10)

\* one candidate of the pairwise splitters: the best is replaced only by a
\* higher gain with two non-empty branches, anything else above 0.8 x best is
\* pushed as an alternative
StepPair(st, cand) ==
  IF NumLt(st.bestGain, cand.gain) /\ Len(cand.splits[1]) > 0 /\ Len(cand.splits[2]) > 0
  THEN [bestTest |-> <<cand.test>>, bestGain |-> cand.gain, bestSplits |-> cand.splits,
        alternativeSplits |-> st.alternativeSplits \o st.bestTest]
  ELSE IF NumLt(NumMul(st.bestGain, FourFifths), cand.gain)
  THEN [st EXCEPT !.alternativeSplits = Append(@, cand.test)]
  ELSE st

\* one candidate of C4.5: empty-branch candidates are skipped first
StepC45(st, cand) ==
  IF Len(cand.splits[1]) = 0 \/ Len(cand.splits[2]) = 0 THEN st
  ELSE IF NumLt(st.bestGain, cand.gain)
  THEN [bestTest |-> <<cand.test>>, bestGain |-> cand.gain, bestSplits |-> cand.splits,
        alternativeSplits |-> st.alternativeSplits \o st.bestTest]
  ELSE IF NumLt(NumMul(st.bestGain, FourFifths), cand.gain)
  THEN [st EXCEPT !.alternativeSplits = Append(@, cand.test)]
  ELSE st

RECURSIVE FoldSearch(_, _, _)
\* the candidate loop of buildNode, in enumeration order
FoldSearch(cands, st, alg) ==
  IF cands = <<>> THEN st
  ELSE FoldSearch(Tail(cands),
                  IF alg = "C4.5" THEN StepC45(st, Head(cands)) ELSE StepPair(st, Head(cands)),
                  alg)

\* stats.entropy - (|s0| * H(s0) + |s1| * H(s1)) / |instances|
InformationGain(stats, splits) ==
  LET n == stats.totalInstances
      h0 == calculateStats(splits[1]).entropy
      h1 == calculateStats(splits[2]).entropy
  IN Num(n * stats.entropy - (Len(splits[1]) * h0 + Len(splits[2]) * h1), n)

\* -sum p log2 p over the branch sizes, times totalInstances
IntrinsicValueN(splits, totalInstances) ==
  LET term(k) == IF k > 0 THEN k * (Log2Milli[totalInstances] - Log2Milli[k]) ELSE 0
  IN term(Len(splits[1])) + term(Len(splits[2]))

GainRatio(stats, splits) ==
  LET n == stats.totalInstances
      ig == calculateStats(splits[1]).entropy * Len(splits[1])
            + calculateStats(splits[2]).entropy * Len(splits[2])
      iv == IntrinsicValueN(splits, n)
  IN IF iv = 0 THEN Int2Num(0) ELSE Num(n * stats.entropy - ig, iv)

Column(instances, attr) == [i \in 1..Len(instances) |-> instances[i].values[attr]]

RECURSIVE Remove(_, _)
\* availableAttributes.filter(a => a is none of gone)
Remove(attrs, gone) ==
  IF attrs = <<>> THEN <<>>
  ELSE IF Head(attrs) \in gone THEN Remove(Tail(attrs), gone)
  ELSE <<Head(attrs)>> \o Remove(Tail(attrs), gone)

RECURSIVE Flatten(_)
Flatten(seqs) == IF seqs = <<>> THEN <<>> ELSE Head(seqs) \o Flatten(Tail(seqs))

\* the column of the class label in the data sets of the provider: it is
\* kept apart from the columns a, b, c, as instance.class
Decision == <<"class">>

\* a pool that is filtered by the decision attribute only
CandidateAttributes_KeepsExcluded(instances, config) ==
  IF instances = <<>> THEN <<>>
  ELSE LET keys == SelectSeq(AttrOrder, LAMBDA t : instances[1].values[t] # Undef)
       IN Remove(keys, {config.decisionAttribute})

\* the attribute pool of buildTree: the keys of the first instance that are
\* neither excluded nor the decision attribute
CandidateAttributes(instances, config) ==
  IF instances = <<>> THEN <<>>
  ELSE LET keys == SelectSeq(AttrOrder, LAMBDA t : instances[1].values[t] # Undef)
       IN Remove(keys, config.excludedAttributes \cup {config.decisionAttribute})

NoElement == MkLeaf(MkId("none", 0, <<>>), NoPrediction, calculateStats(<<>>))

Built(root) == [error |-> "", root |-> root]

Failed(msg) == [error |-> msg, root |-> NoElement]

(* --------------------------------- C4.5 -------------------------------- *)
\* the defined values by Number(a) - Number(b)
ByNumber(defined) ==
  SortKeyed([i \in 1..Len(defined) |->
               [key |-> ToNumber(defined[i]), item |-> defined[i]]], <<>>)

\* [...new Set(values)].sort((a, b) => Number(a) - Number(b)): undefined goes last
SortedValues(values) ==
  LET u == Unique(values, <<>>)
  IN ByNumber(SelectSeq(u, LAMBDA v : v # Undef)) \o SelectSeq(u, LAMBDA v : v = Undef)

\* the branches C4.5 hands to the children of a numeric test
C45NumericSplits(instances, attr, threshold) ==
  << SelectSeqBy(instances,
       {x \in Range(instances) : NumLe(ToNumber(x.values[attr]), threshold)}),
     SelectSeqBy(instances,
       {x \in Range(instances) : NumLt(threshold, ToNumber(x.values[attr]))}) >>

\* the branches C4.5 hands to the children of a categorical test
C45CategoricalSplits(instances, attr, value) ==
  << SelectSeqBy(instances,
       {x \in Range(instances) : StrictEq(x.values[attr], value)}),
     SelectSeqBy(instances,
       {x \in Range(instances) : ~StrictEq(x.values[attr], value)}) >>

\* a candidate test with its branches and its gain ratio
C45Candidate(test, splits, stats) ==
  [test |-> test, splits |-> splits,
   gain |-> IF splits[1] = <<>> \/ splits[2] = <<>> THEN Int2Num(0)
            ELSE GainRatio(stats, splits)]

\* the candidate at one threshold
C45NumericAt(instances, attr, stats, threshold) ==
  C45Candidate(MkTest(attr, "<=", NumV(threshold), "C4.5", stats.entropy, FALSE, NoWeight),
               C45NumericSplits(instances, attr, threshold), stats)

\* one candidate between each two consecutive sorted values
C45NumericBetween(instances, attr, stats, sortedValues) ==
  IF Len(sortedValues) < 2 THEN <<>>
  ELSE [i \in 1..(Len(sortedValues) - 1) |->
         C45NumericAt(instances, attr, stats,
                      NumDiv(NumAdd(ToNumber(sortedValues[i]), ToNumber(sortedValues[i + 1])),
                             Int2Num(2)))]

\* the numeric branch of the attribute loop
C45NumericCandidates(instances, attr, stats) ==
  C45NumericBetween(instances, attr, stats, SortedValues(Column(instances, attr)))

C45CategoricalCandidates(instances, attr, stats) ==
  LET uniqueValues == Unique(Column(instances, attr), <<>>)
  IN IF uniqueValues = <<>> THEN <<>>
     ELSE [i \in 1..Len(uniqueValues) |->
            C45Candidate(MkTest(attr, "==", uniqueValues[i], "C4.5", stats.entropy, FALSE,
                                NoWeight),
                         C45CategoricalSplits(instances, attr, uniqueValues[i]), stats)]

C45Candidates(instances, attrs, stats) ==
  Flatten([j \in 1..Len(attrs) |->
    IF instances[1].values[attrs[j]].k = "num"
    THEN C45NumericCandidates(instances, attrs[j], stats)
    ELSE C45CategoricalCandidates(instances, attrs[j], stats)])

\* availableAttributes.filter(a => a !== bestTest.attribute)
C45RemainingAttrs(availableAttributes, bestTest) ==
  Remove(availableAttributes, {bestTest.attribute})

RECURSIVE C45buildNode(_, _, _, _, _, _)
\* buildNode once the candidate loop has ended in the search state st
C45Split(currentInstances, depth, availableAttributes, config, g, path, stats, st) ==
  IF st.bestTest = <<>> \/ NumLe(st.bestGain, Int2Num(0))
  THEN createLeafFromGroup(currentInstances, MkId("leaf", g, path))
  ELSE
    LET bestTest == st.bestTest[1]
        remainingAttrs == C45RemainingAttrs(availableAttributes, bestTest)
    IN MkNode(MkId("node", g, path), bestTest, Take(st.alternativeSplits, 5),
              << C45buildNode(st.bestSplits[1], depth + 1, remainingAttrs, config, g,
                              Append(path, 0)),
                 C45buildNode(st.bestSplits[2], depth + 1, remainingAttrs, config, g,
                              Append(path, 1)) >>,
              stats)

\* a buildNode without the stopping criterion on the depth
C45buildNode_NoDepthLimit(currentInstances, depth, availableAttributes, config, g, path) ==
  LET stats == calculateStats(currentInstances)
  IN IF \/ Len(currentInstances) <= config.minInstancesPerLeaf
        \/ stats.entropy <= config.entropyThreshold
        \/ Len(availableAttributes) = 0
        \/ Len(stats.classDistribution) <= 1
     THEN createLeafFromGroup(currentInstances, MkId("leaf", g, path))
     ELSE C45Split(currentInstances, depth, availableAttributes, config, g, path, stats,
                   FoldSearch(C45Candidates(currentInstances, availableAttributes, stats),
                              InitSearch, "C4.5"))

\* buildNode of C45.buildTree
C45buildNode(currentInstances, depth, availableAttributes, config, g, path) ==
  LET stats == calculateStats(currentInstances)
  IN IF \/ depth >= config.maxDepth
        \/ Len(currentInstances) <= config.minInstancesPerLeaf
        \/ stats.entropy <= config.entropyThreshold
        \/ Len(availableAttributes) = 0
        \/ Len(stats.classDistribution) <= 1
     THEN createLeafFromGroup(currentInstances, MkId("leaf", g, path))
     ELSE C45Split(currentInstances, depth, availableAttributes, config, g, path, stats,
                   FoldSearch(C45Candidates(currentInstances, availableAttributes, stats),
                              InitSearch, "C4.5"))

C45buildTree(instances, config, g, path) ==
  Built(C45buildNode(instances, 0, CandidateAttributes(instances, config), config, g, path))

(* ---------------------------- TSP and WTSP ----------------------------- *)
\* attributes whose value is numeric on every instance
NumericAttributes(instances, config) ==
  SelectSeq(CandidateAttributes(instances, config),
            LAMBDA t : \A i \in 1..Len(instances) : ~IsNaN(ToNumber(instances[i].values[t])))

\* a candidate test with its branches and its information gain
PairScored(test, splits, stats) ==
  [test |-> test, splits |-> splits, gain |-> InformationGain(stats, splits)]

\* a pair test scored over splitInstances
PairCandidate(instances, test, stats) ==
  PairScored(test, splitInstances(instances, test), stats)

\* all (i, j) with i < j, i outermost
RECURSIVE AttrPairs(_, _, _)
AttrPairs(attrs, i, j) ==
  IF i > Len(attrs) THEN <<>>
  ELSE IF j > Len(attrs) THEN AttrPairs(attrs, i + 1, i + 2)
  ELSE << <<attrs[i], attrs[j]>> >> \o AttrPairs(attrs, i, j + 1)

TSPCandidates(instances, attrs, stats) ==
  LET pairs == AttrPairs(attrs, 1, 2)
  IN Flatten([q \in 1..Len(pairs) |->
       << PairCandidate(instances,
            MkTest(pairs[q][1], "<", StrV(pairs[q][2]), "TSP", stats.entropy, TRUE, NoWeight),
            stats),
          PairCandidate(instances,
            MkTest(pairs[q][2], "<", StrV(pairs[q][1]), "TSP", stats.entropy, TRUE, NoWeight),
            stats) >>])

Ratio(instance, attr1, attr2) ==
  NumDiv(ToNumber(instance.values[attr1]), ToNumber(instance.values[attr2]))

RECURSIVE ThresholdsFrom(_, _, _, _)
ThresholdsFrom(sortedByRatio, i, attr1, attr2) ==
  IF i > Len(sortedByRatio) - 1 THEN <<>>
  ELSE (IF sortedByRatio[i].class # sortedByRatio[i + 1].class
        THEN << NumDiv(NumAdd(Ratio(sortedByRatio[i], attr1, attr2),
                              Ratio(sortedByRatio[i + 1], attr1, attr2)), Int2Num(2)) >>
        ELSE <<>>)
       \o ThresholdsFrom(sortedByRatio, i + 1, attr1, attr2)

findThresholds(instances, attr1, attr2) ==
  ThresholdsFrom(
    SortKeyed([i \in 1..Len(instances) |->
                 [key |-> Ratio(instances[i], attr1, attr2), item |-> instances[i]]], <<>>),
    1, attr1, attr2)

\* one candidate per threshold of a pair of attributes
WTSPWeighted(instances, attr1, attr2, thresholds, stats) ==
  [w \in 1..Len(thresholds) |->
     PairCandidate(instances,
       MkTest(attr1, "<", StrV(attr2), "WTSP", stats.entropy, TRUE, <<thresholds[w]>>),
       stats)]

\* the pair loop of WTSP
WTSPCandidates(instances, attrs, stats) ==
  LET pairs == AttrPairs(attrs, 1, 2)
  IN Flatten([q \in 1..Len(pairs) |->
       WTSPWeighted(instances, pairs[q][1], pairs[q][2],
                    findThresholds(instances, pairs[q][1], pairs[q][2]), stats)])

\* a pool that is handed to the children as it is
PairRemainingAttrs_KeepsPool(availableAttributes, bestTest) == availableAttributes

\* availableAttributes.filter(a => a !== bestTest.attribute && a !== bestTest.value)
PairRemainingAttrs(availableAttributes, bestTest) ==
  Remove(availableAttributes, {bestTest.attribute, JsString(bestTest.value)})

RECURSIVE PairbuildNode(_, _, _, _, _, _, _)
\* buildNode once the candidate loop has ended in the search state st
PairSplit(alg, currentInstances, depth, availableAttributes, config, g, path, stats, st) ==
  IF st.bestTest = <<>> \/ NumLe(st.bestGain, Int2Num(0))
  THEN createLeafFromGroup(currentInstances, MkId("leaf", g, path))
  ELSE
    LET bestTest == st.bestTest[1]
        remainingAttrs == PairRemainingAttrs(availableAttributes, bestTest)
    IN MkNode(MkId("node", g, path), bestTest, Take(st.alternativeSplits, 5),
              << PairbuildNode(alg, st.bestSplits[1], depth + 1, remainingAttrs, config,
                               g, Append(path, 0)),
                 PairbuildNode(alg, st.bestSplits[2], depth + 1, remainingAttrs, config,
                               g, Append(path, 1)) >>,
              stats)

\* a buildNode that still splits at depth = config.maxDepth
PairbuildNode_DepthOffByOne(alg, currentInstances, depth, availableAttributes, config, g, path) ==
  LET stats == calculateStats(currentInstances)
  IN IF \/ depth > config.maxDepth
        \/ Len(currentInstances) <= config.minInstancesPerLeaf
        \/ stats.entropy <= config.entropyThreshold
        \/ Len(availableAttributes) < 2
     THEN createLeafFromGroup(currentInstances, MkId("leaf", g, path))
     ELSE PairSplit(alg, currentInstances, depth, availableAttributes, config, g, path, stats,
                    FoldSearch(IF alg = "TSP"
                               THEN TSPCandidates(currentInstances, availableAttributes, stats)
                               ELSE WTSPCandidates(currentInstances, availableAttributes, stats),
                               InitSearch, alg))

\* buildNode of TSP (alg = "TSP") and of WTSP (alg = "WTSP")
PairbuildNode(alg, currentInstances, depth, availableAttributes, config, g, path) ==
  LET stats == calculateStats(currentInstances)
  IN IF \/ depth >= config.maxDepth
        \/ Len(currentInstances) <= config.minInstancesPerLeaf
        \/ stats.entropy <= config.entropyThreshold
        \/ Len(availableAttributes) < 2
     THEN createLeafFromGroup(currentInstances, MkId("leaf", g, path))
     ELSE PairSplit(alg, currentInstances, depth, availableAttributes, config, g, path, stats,
                    FoldSearch(IF alg = "TSP"
                               THEN TSPCandidates(currentInstances, availableAttributes, stats)
                               ELSE WTSPCandidates(currentInstances, availableAttributes, stats),
                               InitSearch, alg))

PairbuildTree(alg, instances, config, g, path) ==
  LET attributes == NumericAttributes(instances, config)
  IN IF Len(attributes) < 2
     THEN Failed(IF alg = "TSP" THEN "TSP requires at least 2 numeric attributes"
                 ELSE "WTSP requires at least 2 numeric attributes")
     ELSE Built(PairbuildNode(alg, instances, 0, attributes, config, g, path))

\* the registry: algorithms[tag].buildTree(instances, config)
Registry == {"C4.5", "TSP", "WTSP"}

\* a build that reads the instances in an order that depends on the run
buildTree_OrderByRun(alg, instances, config, g, path) ==
  IF alg \notin Registry THEN Failed("TypeError")
  ELSE IF alg = "C4.5"
  THEN C45buildTree(IF g % 2 = 0
                    THEN [i \in 1..Len(instances) |-> instances[Len(instances) + 1 - i]]
                    ELSE instances, config, g, path)
  ELSE PairbuildTree(alg, IF g % 2 = 0
                          THEN [i \in 1..Len(instances) |-> instances[Len(instances) + 1 - i]]
                          ELSE instances, config, g, path)

\* algorithms[alg].buildTree(instances, config), with the ids of generation g
buildTree(alg, instances, config, g, path) ==
  IF alg \notin Registry THEN Failed("TypeError")
  ELSE IF alg = "C4.5" THEN C45buildTree(instances, config, g, path)
  ELSE PairbuildTree(alg, instances, config, g, path)

(* ------------------------------ TreeEngine ----------------------------- *)
VARIABLES
  dataset,   \* TreeEngine.dataset: the labelled training instances
  tree,      \* TreeEngine.currentTree = trees[omicsType]: [root, config]
  prev,      \* the root before the last operation
  last,      \* the last operation, its arguments and how it ended
  clean,     \* every operation so far completed successfully
  nops,      \* number of operations issued so far
  pending,   \* the calls suspended at an await, with what they captured
  evaluations, \* the EvaluationResults evaluateTree has returned, in order
  call       \* the last direct call of a library function: [fn, args, result]

vars == <<dataset, tree, prev, last, clean, nops, pending, evaluations, call>>

\* no library function has been called directly
NoCall == [fn |-> "none", args |-> <<>>, result |-> <<>>]

RECURSIVE reachesNode(_, _, _)
\* variant: the walk does not consult the tests
reachesNode_AnyBranch(current, instance, targetId) ==
  findNodeById(current, targetId) # <<>>

\* TreeEngine.reachesNode
reachesNode(current, instance, targetId) ==
  IF current.id = targetId THEN TRUE
  ELSE IF current.type = "node" THEN
    reachesNode(IF evaluate(instance, current.test) THEN current.children[1]
                ELSE current.children[2], instance, targetId)
  ELSE FALSE

InstancesFor(data, root, nodeId) ==
  SelectSeqBy(data, {i \in Range(data) : reachesNode(root, i, nodeId)})

getInstancesForNode(nodeId) == InstancesFor(dataset, tree.root, nodeId)

RECURSIVE recursivelyUpdateStatistics(_, _)
\* variant: a Node's test is re-stamped with the refreshed entropy
recursivelyUpdateStatistics_StampsTest(element, instances) ==
  LET stats == calculateStats(instances)
  IN IF element.type = "leaf"
     THEN [element EXCEPT !.statistics = stats,
                          !.canExpand = stats.entropy > 0,
                          !.classDistribution = stats.classDistribution,
                          !.predictedClass = MajorityClass(stats.classDistribution)]
     ELSE [element EXCEPT !.statistics = stats,
                          !.test.entropy = stats.entropy,
                          !.children = [idx \in 1..Len(element.children) |->
                            recursivelyUpdateStatistics(element.children[idx],
                              splitInstances(instances, element.test)[idx])]]

\* yields the element as left by the in-place update
recursivelyUpdateStatistics(element, instances) ==
  LET stats == calculateStats(instances)
  IN IF element.type = "leaf"
     THEN [element EXCEPT !.statistics = stats,
                          !.canExpand = stats.entropy > 0,
                          !.classDistribution = stats.classDistribution,
                          !.predictedClass = MajorityClass(stats.classDistribution)]
     ELSE [element EXCEPT !.statistics = stats,
                          !.children = [idx \in 1..Len(element.children) |->
                            recursivelyUpdateStatistics(element.children[idx],
                              splitInstances(instances, element.test)[idx])]]

RECURSIVE ReplaceById(_, _, _)
\* the tree after the object findNodeById returns has been overwritten by repl
ReplaceById(current, nodeId, repl) ==
  IF current.id = nodeId THEN repl
  ELSE IF current.type = "node" THEN
    IF findNodeById(current.children[1], nodeId) # <<>>
    THEN [current EXCEPT !.children[1] = ReplaceById(@, nodeId, repl)]
    ELSE [current EXCEPT !.children[2] = ReplaceById(@, nodeId, repl)]
  ELSE current

\* variant: the target keeps its own id
ObjectAssign_KeepsTargetId(target, source) ==
  IF source.type = "leaf"
  THEN [target EXCEPT !.type = source.type,
                      !.predictedClass = source.predictedClass,
                      !.classDistribution = source.classDistribution,
                      !.canExpand = source.canExpand,
                      !.statistics = source.statistics]
  ELSE [target EXCEPT !.type = source.type,
                      !.test = source.test,
                      !.alternativeSplits = source.alternativeSplits,
                      !.children = source.children,
                      !.statistics = source.statistics]

\* Object.assign(target, source): only the keys the source object has are copied
ObjectAssign(target, source) ==
  IF source.type = "leaf"
  THEN [target EXCEPT !.id = source.id, !.type = source.type,
                      !.predictedClass = source.predictedClass,
                      !.classDistribution = source.classDistribution,
                      !.canExpand = source.canExpand,
                      !.statistics = source.statistics]
  ELSE [target EXCEPT !.id = source.id, !.type = source.type,
                      !.test = source.test,
                      !.alternativeSplits = source.alternativeSplits,
                      !.children = source.children,
                      !.statistics = source.statistics]

RECURSIVE Generations(_)
\* the build generations of all ids stored anywhere in an element
Generations(el) ==
  {el.id.g} \cup UNION {Generations(el.children[i]) : i \in 1..Len(el.children)}

Max(S) == CHOOSE x \in S : \A y \in S : y <= x

\* Math.random(): ids never collide with an id in the tree
FreshGen(root) == Max(Generations(root)) + 1

RECURSIVE ElementIds(_)
\* ids of the elements reachable from an element
ElementIds(el) ==
  {el.id} \cup (IF el.type = "node"
               THEN ElementIds(el.children[1]) \cup ElementIds(el.children[2])
               ELSE {})

(* ------------------------------- inputs -------------------------------- *)
S1 == StrV(<<"1">>)
S10 == StrV(<<"1", ".", "0">>)
Sa == StrV(<<"a">>)

\* two numeric columns; x iff a = 1 and b = 1
DataNumeric ==
  << Inst(1, IntV(1), IntV(1), Undef, "x"), Inst(2, IntV(1), IntV(2), Undef, "y"),
     Inst(3, IntV(2), IntV(1), Undef, "y"), Inst(4, IntV(2), IntV(3), Undef, "y") >>

\* column a has no value on instance 3
DataMissing ==
  << Inst(1, IntV(1), IntV(2), IntV(1), "x"), Inst(2, IntV(3), IntV(1), IntV(2), "y"),
     Inst(3, Undef, IntV(1), IntV(3), "x"), Inst(4, IntV(1), IntV(2), IntV(4), "x") >>

\* column c is categorical and holds the strings "1", "1.0" and "a"
DataStrings ==
  << Inst(1, IntV(1), IntV(2), S1, "x"), Inst(2, IntV(1), IntV(2), S10, "y"),
     Inst(3, IntV(1), IntV(2), Sa, "y") >>

Datasets == {DataNumeric, DataMissing, DataStrings}

MkConfig(alg, depth) ==
  [algorithms |-> <<alg>>, maxDepth |-> depth, minInstancesPerLeaf |-> 0,
   entropyThreshold |-> 0, excludedAttributes |-> {}, decisionAttribute |-> Decision]

DepthChoices == {1, 3}

\* algorithm tags a caller passes: the registry and NodeEditor's 'HYBRID'
AlgInputs == Registry \cup {"HYBRID"}

\* tests a caller submits (NodeEditor.handleEditSubmit)
TestInputs ==
  { MkTest(A, "<=", IntV(1), "C4.5", 0, FALSE, NoWeight),
    MkTest(B, "<", StrV(A), "TSP", 0, TRUE, NoWeight),
    MkTest(C, "==", S10, "C4.5", 0, FALSE, NoWeight),
    MkTest(A, ">", IntV(9), "C4.5", 0, FALSE, NoWeight) }

\* an id that names no element
BogusId == MkId("node", -1, <<>>)

IdInputs == ElementIds(tree.root) \cup {BogusId}

(* ------------------------------- actions ------------------------------- *)
Op(name, nodeId, alg, test, result, error) ==
  [op |-> name, nodeId |-> nodeId, algorithm |-> alg, test |-> test,
   result |-> result, error |-> error]

\* the state buildTrees leaves once the build has resolved
buildTreesDone(d, alg, config, built) ==
  /\ built.error = ""
  /\ dataset = d
  /\ tree = [root |-> built.root, config |-> config]
  /\ prev = built.root
  /\ last = Op("buildTrees", BogusId, alg, <<>>, "ok", "")
  /\ clean = TRUE
  /\ nops = 0
  /\ pending = <<>>
  /\ evaluations = <<>>
  /\ call = NoCall

\* buildTrees: the tree of config.algorithms[0] over the labelled instances
Init ==
  \E d \in Datasets, alg \in Registry, depth \in DepthChoices :
    buildTreesDone(d, alg, MkConfig(alg, depth),
           buildTree(alg, d, MkConfig(alg, depth), 0, <<>>))

Finish(op, newRoot) ==
  /\ tree' = [tree EXCEPT !.root = newRoot]
  /\ prev' = tree.root
  /\ last' = op
  /\ clean' = (clean /\ op.result = "ok")
  /\ nops' = nops + 1
  /\ UNCHANGED <<dataset, pending, evaluations, call>>

\* variant: only the null check
InvalidNode_NullOnly(found) == found = <<>>

\* !node || node.type !== 'node'
InvalidNode(found) == found = <<>> \/ found[1].type # "node"

\* variant: the supplied test is ignored
TestToUse_KeepsOld(customTest, node) == node.test

\* customTest ?? node.test
TestToUse(customTest, node) == IF customTest # <<>> THEN customTest[1] ELSE node.test

\* how a method of the engine ends, and the root it leaves
Outcome(op, newRoot) == [op |-> op, root |-> newRoot]

\* the body of TreeEngine.applyDistributionChange
Changed(nodeId, newTest) ==
  LET found == findNodeById(tree.root, nodeId)
  IN IF InvalidNode(found)
     THEN Outcome(Op("applyDistributionChange", nodeId, "", <<newTest>>, "threw", "Invalid node"),
                  tree.root)
     ELSE Outcome(Op("applyDistributionChange", nodeId, "", <<newTest>>, "ok", ""),
            ReplaceById(tree.root, nodeId,
              [found[1] EXCEPT !.test = newTest,
                 !.children = [i \in 1..Len(found[1].children) |->
                   recursivelyUpdateStatistics(found[1].children[i],
                     splitInstances(getInstancesForNode(nodeId), newTest)[i])]]))

\* TreeEngine.applyDistributionChange
applyDistributionChange(nodeId, newTest) ==
  /\ nops < MaxOps
  /\ \E o \in {Changed(nodeId, newTest)} : Finish(o.op, o.root)

\* rebuildSubtree from the await of Promise.all on: withTest is the node with
\* node.test already assigned, builds the two settled buildTree calls
Settle(nodeId, algorithm, customTest, withTest, builds) ==
  LET failed == {i \in 1..2 : builds[i].error # ""}
  IN IF failed # {}
     THEN \* node.test is already assigned when Promise.all rejects
          Outcome(Op("rebuildSubtree", nodeId, algorithm, customTest, "threw",
                     builds[CHOOSE i \in failed : \A j \in failed : i <= j].error),
                  ReplaceById(tree.root, nodeId, withTest))
     ELSE Outcome(Op("rebuildSubtree", nodeId, algorithm, customTest, "ok", ""),
                  ReplaceById(tree.root, nodeId,
                    [withTest EXCEPT !.children = <<builds[1].root, builds[2].root>>]))

\* the body of TreeEngine.rebuildSubtree; customTest is <<>> when not supplied
Rebuilt(nodeId, algorithm, customTest) ==
  LET found == findNodeById(tree.root, nodeId)
  IN IF InvalidNode(found)
     THEN Outcome(Op("rebuildSubtree", nodeId, algorithm, customTest, "threw", "Invalid node"),
                  tree.root)
     ELSE Settle(nodeId, algorithm, customTest,
            [found[1] EXCEPT !.test = TestToUse(customTest, found[1])],
            [i \in 1..2 |->
               buildTree(algorithm,
                         splitInstances(getInstancesForNode(nodeId),
                                        TestToUse(customTest, found[1]))[i],
                         tree.config, FreshGen(tree.root), <<i - 1>>)])

\* TreeEngine.rebuildSubtree
rebuildSubtree(nodeId, algorithm, customTest) ==
  /\ nops < MaxOps
  /\ \E o \in {Rebuilt(nodeId, algorithm, customTest)} : Finish(o.op, o.root)

\* TreeEngineProvider.makeLeaf
makeLeaf(nodeId) ==
  LET found == findNodeById(tree.root, nodeId)
  IN /\ nops < MaxOps
     /\ IF found = <<>>
        THEN Finish(Op("makeLeaf", nodeId, "", <<>>, "returned", ""), tree.root)
        ELSE Finish(Op("makeLeaf", nodeId, "", <<>>, "ok", ""),
               ReplaceById(tree.root, nodeId,
                 ObjectAssign(found[1],
                   createLeafFromGroup(getInstancesForNode(nodeId),
                                       MkId("leaf", FreshGen(tree.root), <<>>)))))

\* variant: the built root keeps its own id
SpreadWithId_BuiltId(root, id) == root

\* { ...newTree.root, id: node.id }
SpreadWithId(root, id) == [root EXCEPT !.id = id]

\* the unfold from the resolved buildTree on
Assign(name, nodeId, algorithm, node, newTree) ==
  IF newTree.error # ""
  THEN Finish(Op(name, nodeId, algorithm, <<>>, "threw", newTree.error), tree.root)
  ELSE Finish(Op(name, nodeId, algorithm, <<>>, "ok", ""),
              ReplaceById(tree.root, nodeId,
                ObjectAssign(node, SpreadWithId(newTree.root, node.id))))

\* the body shared by unfoldLeafOnce and unfoldLeafFully
Unfold(name, nodeId, algorithm, config) ==
  LET found == findNodeById(tree.root, nodeId)
  IN /\ nops < MaxOps
     /\ IF found = <<>> \/ found[1].type # "leaf"
        THEN Finish(Op(name, nodeId, algorithm, <<>>, "returned", ""), tree.root)
        ELSE Assign(name, nodeId, algorithm, found[1],
               buildTree(algorithm, getInstancesForNode(nodeId), config,
                         FreshGen(tree.root), <<>>))

\* TreeEngineProvider.unfoldLeafOnce
unfoldLeafOnce(nodeId, algorithm) ==
  Unfold("unfoldLeafOnce", nodeId, algorithm,
         [tree.config EXCEPT !.maxDepth = 1, !.algorithms = <<algorithm>>])

\* TreeEngineProvider.unfoldLeafFully
unfoldLeafFully(nodeId, algorithm) ==
  Unfold("unfoldLeafFully", nodeId, algorithm, [tree.config EXCEPT !.algorithms = <<algorithm>>])

Next ==
  \/ \E id \in IdInputs, t \in TestInputs : applyDistributionChange(id, t)
  \/ \E id \in IdInputs, alg \in AlgInputs, ct \in {<<>>} \cup {<<t>> : t \in TestInputs} :
       rebuildSubtree(id, alg, ct)
  \/ \E id \in IdInputs : makeLeaf(id)
  \/ \E id \in IdInputs, alg \in AlgInputs : unfoldLeafOnce(id, alg)
  \/ \E id \in IdInputs, alg \in AlgInputs : unfoldLeafFully(id, alg)

Spec == Init /\ [][Next]_vars

(* ---------------------- calls suspended at an await -------------------- *)
\* Next runs every call from its first statement to its last.  Below, a call
\* that reaches an await stops there and its continuation is a step of its
\* own, so that whatever else is called in between sees the tree of that
\* moment.  The algorithms' buildTree has no await of its own: its result is
\* computed when it is called and handed over when the caller resumes.
MaxPending == 1

\* a call stopped at its await: what it was called with, the builds it has
\* started, and how many operations had completed when it was called
Suspended(name, nodeId, algorithm, test, builds, g) ==
  [op |-> name, nodeId |-> nodeId, algorithm |-> algorithm, test |-> test,
   builds |-> builds, g |-> g, at |-> nops]

\* ids of the builds that have not been handed over yet are taken as well
NextGen ==
  Max({FreshGen(tree.root)} \cup {pending[k].g + 1 : k \in 1..Len(pending)})

\* the call returns a pending promise
Await(op, newRoot, suspended) ==
  /\ tree' = [tree EXCEPT !.root = newRoot]
  /\ prev' = tree.root
  /\ last' = op
  /\ pending' = Append(pending, suspended)
  /\ UNCHANGED <<dataset, clean, nops, evaluations, call>>

\* the continuation of pending[k] has run to the end of the call
Resumed(op, newRoot, k) ==
  /\ tree' = [tree EXCEPT !.root = newRoot]
  /\ prev' = tree.root
  /\ last' = op
  /\ clean' = (clean /\ op.result = "ok")
  /\ nops' = nops + 1
  /\ pending' = [i \in 1..(Len(pending) - 1) |-> IF i < k THEN pending[i] ELSE pending[i + 1]]
  /\ UNCHANGED <<dataset, evaluations, call>>

\* rebuildSubtree up to its await: node.test is assigned, the builds are started
rebuildSubtreeCall(nodeId, algorithm, customTest) ==
  LET found == findNodeById(tree.root, nodeId)
  IN /\ nops < MaxOps
     /\ Len(pending) < MaxPending
     /\ IF InvalidNode(found)
        THEN Finish(Op("rebuildSubtree", nodeId, algorithm, customTest, "threw", "Invalid node"),
                    tree.root)
        ELSE Await(Op("rebuildSubtree", nodeId, algorithm, customTest, "awaiting", ""),
               ReplaceById(tree.root, nodeId,
                           [found[1] EXCEPT !.test = TestToUse(customTest, found[1])]),
               Suspended("rebuildSubtree", nodeId, algorithm, customTest,
                 [i \in 1..2 |->
                    buildTree(algorithm,
                              splitInstances(getInstancesForNode(nodeId),
                                             TestToUse(customTest, found[1]))[i],
                              tree.config, NextGen, <<i - 1>>)],
                 NextGen))

\* node.children = (the awaited roots), on the node object as it is by then
SettleLate(k, p, found) ==
  LET failed == {i \in 1..2 : p.builds[i].error # ""}
  IN IF failed # {}
     THEN Resumed(Op(p.op, p.nodeId, p.algorithm, p.test, "threw",
                     p.builds[CHOOSE i \in failed : \A j \in failed : i <= j].error),
                  tree.root, k)
     ELSE Resumed(Op(p.op, p.nodeId, p.algorithm, p.test, "ok", ""),
                  IF found = <<>> THEN tree.root
                  ELSE ReplaceById(tree.root, p.nodeId,
                         [found[1] EXCEPT !.children = <<p.builds[1].root, p.builds[2].root>>]),
                  k)

\* rebuildSubtree from its await on
rebuildSubtreeResume(k) ==
  /\ pending[k].op = "rebuildSubtree"
  /\ SettleLate(k, pending[k], findNodeById(tree.root, pending[k].nodeId))

\* unfoldLeafOnce / unfoldLeafFully up to the await of buildTree
UnfoldCall(name, nodeId, algorithm, config) ==
  LET found == findNodeById(tree.root, nodeId)
  IN /\ nops < MaxOps
     /\ Len(pending) < MaxPending
     /\ IF found = <<>> \/ found[1].type # "leaf"
        THEN Finish(Op(name, nodeId, algorithm, <<>>, "returned", ""), tree.root)
        ELSE Await(Op(name, nodeId, algorithm, <<>>, "awaiting", ""), tree.root,
               Suspended(name, nodeId, algorithm, <<>>,
                 << buildTree(algorithm, getInstancesForNode(nodeId), config, NextGen, <<>>) >>,
                 NextGen))

\* Object.assign(node, { ...newTree.root, id: node.id }), on the object as it is by then
AssignLate(k, p, found) ==
  IF p.builds[1].error # ""
  THEN Resumed(Op(p.op, p.nodeId, p.algorithm, <<>>, "threw", p.builds[1].error), tree.root, k)
  ELSE Resumed(Op(p.op, p.nodeId, p.algorithm, <<>>, "ok", ""),
               IF found = <<>> THEN tree.root
               ELSE ReplaceById(tree.root, p.nodeId,
                      ObjectAssign(found[1], SpreadWithId(p.builds[1].root, found[1].id))),
               k)

\* unfoldLeafOnce / unfoldLeafFully from the await on
UnfoldResume(k) ==
  /\ pending[k].op \in {"unfoldLeafOnce", "unfoldLeafFully"}
  /\ AssignLate(k, pending[k], findNodeById(tree.root, pending[k].nodeId))

\* the tags and tests the interleavings are explored with
AsyncAlgInputs == {"C4.5", "TSP", "HYBRID"}

AsyncTestInputs ==
  { MkTest(A, "<=", IntV(1), "C4.5", 0, FALSE, NoWeight),
    MkTest(B, "<", StrV(A), "TSP", 0, TRUE, NoWeight) }

NextAsync ==
  \/ \E id \in IdInputs, t \in AsyncTestInputs : applyDistributionChange(id, t)
  \/ \E id \in IdInputs, alg \in AsyncAlgInputs, ct \in {<<>>} \cup {<<t>> : t \in AsyncTestInputs} :
       rebuildSubtreeCall(id, alg, ct)
  \/ \E k \in 1..Len(pending) : rebuildSubtreeResume(k)
  \/ \E id \in IdInputs, alg \in AsyncAlgInputs :
       UnfoldCall("unfoldLeafOnce", id, alg,
                  [tree.config EXCEPT !.maxDepth = 1, !.algorithms = <<alg>>])
  \/ \E id \in IdInputs, alg \in AsyncAlgInputs :
       UnfoldCall("unfoldLeafFully", id, alg, [tree.config EXCEPT !.algorithms = <<alg>>])
  \/ \E k \in 1..Len(pending) : UnfoldResume(k)

SpecAsync == Init /\ [][NextAsync]_vars

(* ------------------------------- metrics ------------------------------- *)
\* the class labels in use, in the order Array.prototype.sort() gives them
\* (UTF-16 code units: digits come before "U", "U" before "x" and "y";
\* undefined goes last)
LabelOrder == <<"0", "1", "Unknown", "x", "y", NoPrediction>>

\* the labels in the order of their first occurrence, without the sort
SortLabels_InsertionOrder(labels) == Unique(labels, <<>>)

\* [...new Set(labels)].sort()
SortLabels(labels) == SelectSeq(LabelOrder, LAMBDA l : l \in Range(labels))

RECURSIVE Populate(_, _, _)
\* matrix[actual[i]][predicted[i]]++ for every i
Populate(matrix, actual, predicted) ==
  IF actual = <<>> THEN matrix
  ELSE Populate([matrix EXCEPT ![Head(actual)][Head(predicted)] = @ + 1],
                Tail(actual), Tail(predicted))

createConfusionMatrix(actual, predicted) ==
  IF Len(actual) # Len(predicted)
  THEN [classLabels |-> <<>>,
        error |-> "Actual and predicted arrays must have the same length",
        matrix |-> <<>>]
  ELSE LET classLabels == SortLabels(actual \o predicted)
       IN [error |-> "",
           matrix |-> Populate([a \in Range(classLabels) |->
                                  [p \in Range(classLabels) |-> 0]], actual, predicted),
           classLabels |-> classLabels]

RECURSIVE SumInts(_)
SumInts(seq) == IF seq = <<>> THEN 0 ELSE Head(seq) + SumInts(Tail(seq))

RECURSIVE SumNums(_)
\* reduce((sum, val) => sum + val, 0)
SumNums(seq) == IF seq = <<>> THEN Int2Num(0) ELSE NumAdd(Head(seq), SumNums(Tail(seq)))

\* x || 0
OrZero(x) == IF IsNaN(x) \/ x = Int2Num(0) THEN Int2Num(0) ELSE x

\* precision, recall and f1Score of one class
ClassMetrics(matrix, classLabels, cls) ==
  LET tp == matrix[cls][cls]
      fp == SumInts([i \in 1..Len(classLabels) |->
                       IF classLabels[i] # cls THEN matrix[classLabels[i]][cls] ELSE 0])
      fn == SumInts([i \in 1..Len(classLabels) |->
                       IF classLabels[i] # cls THEN matrix[cls][classLabels[i]] ELSE 0])
      precision == OrZero(NumDiv(Int2Num(tp), Int2Num(tp + fp)))
      recall == OrZero(NumDiv(Int2Num(tp), Int2Num(tp + fn)))
  IN [precision |-> precision, recall |-> recall,
      f1Score |-> OrZero(NumDiv(NumMul(Int2Num(2), NumMul(precision, recall)),
                                NumAdd(precision, recall)))]

\* the macro average of one of the three per-class metrics
MacroAvg(values, classLabels) ==
  NumDiv(SumNums([i \in 1..Len(classLabels) |-> values[classLabels[i]]]),
         Int2Num(Len(classLabels)))

\* calculateMetrics from the per-class metrics on
MetricsFrom(matrix, classLabels, per) ==
  [accuracy |->
     NumDiv(Int2Num(SumInts([i \in 1..Len(classLabels) |->
                               matrix[classLabels[i]][classLabels[i]]])),
            Int2Num(SumInts([i \in 1..Len(classLabels) |->
                               SumInts([j \in 1..Len(classLabels) |->
                                          matrix[classLabels[i]][classLabels[j]]])]))),
   precision |-> [c \in Range(classLabels) |-> per[c].precision],
   recall |-> [c \in Range(classLabels) |-> per[c].recall],
   f1Score |-> [c \in Range(classLabels) |-> per[c].f1Score],
   macroAvgPrecision |-> MacroAvg([c \in Range(classLabels) |-> per[c].precision], classLabels),
   macroAvgRecall |-> MacroAvg([c \in Range(classLabels) |-> per[c].recall], classLabels),
   macroAvgF1 |-> MacroAvg([c \in Range(classLabels) |-> per[c].f1Score], classLabels)]

calculateMetrics(confusionMatrix) ==
  MetricsFrom(confusionMatrix.matrix, confusionMatrix.classLabels,
              [c \in Range(confusionMatrix.classLabels) |->
                 ClassMetrics(confusionMatrix.matrix, confusionMatrix.classLabels, c)])

DefaultThresholdCount == 100

\* Array.from({ length: 100 }, (_, i) => i / 100)
DefaultThresholds == [i \in 1..DefaultThresholdCount |-> Num(i - 1, DefaultThresholdCount)]

\* points.push({ fpr: 0, tpr: 0, threshold: 1 })
ROCStart == [tpr |-> Int2Num(0), fpr |-> Int2Num(0), threshold |-> Int2Num(1)]

\* points.push({ fpr: 1, tpr: 1, threshold: 0 })
ROCEnd == [tpr |-> Int2Num(1), fpr |-> Int2Num(1), threshold |-> Int2Num(0)]

\* the point of one threshold
ROCPoint(actual, predicted, positiveClass, threshold, totalPositives) ==
  [tpr |-> NumDiv(Int2Num(Cardinality({i \in 1..Len(actual) :
                     NumLe(threshold, predicted[i]) /\ actual[i] = positiveClass})),
                  Int2Num(totalPositives)),
   fpr |-> NumDiv(Int2Num(Cardinality({i \in 1..Len(actual) :
                     NumLe(threshold, predicted[i]) /\ actual[i] # positiveClass})),
                  Int2Num(Len(actual) - totalPositives)),
   threshold |-> threshold]

\* generateROCCurve once totalPositives is counted
ROCPoints(actual, predicted, positiveClass, thresholds, totalPositives) ==
  IF totalPositives = 0 \/ Len(actual) - totalPositives = 0
  THEN [error |-> "ROC curve requires both positive and negative instances", points |-> <<>>]
  ELSE [error |-> "",
        points |-> <<ROCStart>>
                   \o [t \in 1..Len(thresholds) |->
                         ROCPoint(actual, predicted, positiveClass, thresholds[t],
                                  totalPositives)]
                   \o <<ROCEnd>>]

generateROCCurve(actual, predicted, positiveClass, thresholds) ==
  ROCPoints(actual, predicted, positiveClass, thresholds,
            Cardinality({i \in 1..Len(actual) : actual[i] = positiveClass}))

(* ------------------------ direct library calls ------------------------- *)
MaxSamples == 3

\* the scores a caller passes as predicted
Scores == {Int2Num(0), Num(1, 2), Int2Num(1)}

\* one direct call per behaviour: the calls do not depend on one another
Called(fn, args, result) ==
  /\ call = NoCall
  /\ call' = [fn |-> fn, args |-> args, result |-> result]
  /\ UNCHANGED <<dataset, tree, prev, last, clean, nops, pending, evaluations>>

CallGenerateROCCurve(actual, predicted, positiveClass) ==
  Called("generateROCCurve", <<actual, predicted, positiveClass>>,
         generateROCCurve(actual, predicted, positiveClass, DefaultThresholds))

\* the values of column a in the lists a caller splits
SplitValues == {IntV(0), IntV(1), Sa, Undef}

\* the instance lists a caller splits: instance i has id i
SplitLists ==
  UNION { { [i \in 1..n |-> Inst(i, va[i], IntV(1), Undef, "x")] : va \in [1..n -> SplitValues] }
          : n \in 0..MaxSamples }

\* tests with every supported condition, against a number, a string and column b
SplitTests ==
  { MkTest(A, c, v, "C4.5", 0, FALSE, NoWeight) : c \in Conditions, v \in {IntV(1), Sa} }
    \cup { MkTest(A, c, StrV(B), "TSP", 0, TRUE, NoWeight) : c \in Conditions }

\* the list is read by two filters and is the same list after the call
CallSplitInstances(instances, test) ==
  Called("splitInstances", <<instances, test>>,
         [branches |-> splitInstances(instances, test), instances |-> instances])

\* label arrays of up to MaxSamples entries
LabelArrays == UNION { [1..n -> {"Unknown", "x", "y"}] : n \in 0..MaxSamples }

CallCreateConfusionMatrix(actual, predicted) ==
  Called("createConfusionMatrix", <<actual, predicted>>,
         createConfusionMatrix(actual, predicted))

\* the number of runs of one build that are compared
Runs == 2

\* three numeric columns with a < b on every instance
DataOrdered ==
  << Inst(1, IntV(1), IntV(2), IntV(0), "x"), Inst(2, IntV(1), IntV(2), IntV(3), "y"),
     Inst(3, IntV(1), IntV(2), IntV(4), "y") >>

\* the instance sets a caller builds from
BuildSets == Datasets \cup {DataOrdered}

\* the configs a caller builds with
BuildConfigs(alg) ==
  { [algorithms |-> <<alg>>, maxDepth |-> depth, minInstancesPerLeaf |-> minLeaf,
     entropyThreshold |-> threshold, excludedAttributes |-> excluded,
     decisionAttribute |-> decision] :
      depth \in {0, 1, 3}, minLeaf \in {0, 2}, threshold \in {0, 900},
      excluded \in {{}, {A}}, decision \in {Decision, B} }

\* run r of a build draws its own random ids: generation r
CallBuildTree(alg, instances, config) ==
  Called("buildTree", <<alg, instances, config>>,
         [r \in 1..Runs |-> buildTree(alg, instances, config, r, <<>>)])

\* the candidates WTSP.buildTree scores at the root of a build
CallWTSPCandidates(instances, config) ==
  Called("WTSP.candidates", <<instances, config>>,
         WTSPCandidates(instances, NumericAttributes(instances, config),
                        calculateStats(instances)))

\* no tree is involved in a direct call
InitCalls ==
  /\ dataset = <<>>
  /\ tree = [root |-> NoElement, config |-> MkConfig("C4.5", 0)]
  /\ prev = NoElement
  /\ last = Op("none", BogusId, "", <<>>, "ok", "")
  /\ clean = TRUE
  /\ nops = 0
  /\ pending = <<>>
  /\ evaluations = <<>>
  /\ call = NoCall

NextCalls ==
  \/ \E n \in 1..MaxSamples :
       \E actual \in [1..n -> {"x", "y"}], predicted \in [1..n -> Scores],
          positiveClass \in {"x", "y"} :
         CallGenerateROCCurve(actual, predicted, positiveClass)
  \/ \E instances \in SplitLists, test \in SplitTests :
       CallSplitInstances(instances, test)
  \/ \E actual \in LabelArrays, predicted \in LabelArrays :
       CallCreateConfusionMatrix(actual, predicted)
  \/ \E alg \in Registry, d \in BuildSets :
       \E config \in BuildConfigs(alg) : CallBuildTree(alg, d, config)
  \/ \E d \in Datasets, depth \in DepthChoices :
       CallWTSPCandidates(d, MkConfig("WTSP", depth))

SpecCalls == InitCalls /\ [][NextCalls]_vars

(* ----------------------------- evaluation ----------------------------- *)
RECURSIVE Descend(_, _)
\* the while loop of evaluateTree: the element where the walk of one instance
\* stops
Descend(currentNode, instance) ==
  IF currentNode.type # "node" THEN currentNode
  ELSE IF Len(currentNode.children) < (IF evaluate(instance, currentNode.test) THEN 1 ELSE 2)
  THEN currentNode
  ELSE Descend(currentNode.children[IF evaluate(instance, currentNode.test) THEN 1 ELSE 2],
               instance)

\* the class of a decision column of numbers is a number: "0" and "1" stand
\* for the numbers 0 and 1 that parseCSV stores
ZeroClass == "0"

\* !instance.class: undefined and the number 0
IsFalsy(class) == class \in {NoClass, ZeroClass}

RECURSIVE Predictions(_, _)
\* the for loop of evaluateTree: one prediction per instance whose class is
\* not falsy and whose walk stops at a leaf
Predictions(root, instances) ==
  IF instances = <<>> THEN <<>>
  ELSE IF IsFalsy(Head(instances).class) \/ Descend(root, Head(instances)).type # "leaf"
  THEN Predictions(root, Tail(instances))
  ELSE << [actual |-> Head(instances).class,
           predicted |-> Descend(root, Head(instances)).predictedClass] >>
       \o Predictions(root, Tail(instances))

\* rocCurve when there is none
NoCurve == <<>>

\* evaluateTree from the ROC curve on; a throw of generateROCCurve rejects the
\* call
EvaluationWith(confusionMatrix, roc) ==
  IF roc.error # ""
  THEN [error |-> roc.error, confusionMatrix |-> <<>>, metrics |-> <<>>, rocCurve |-> NoCurve]
  ELSE [error |-> "", confusionMatrix |-> confusionMatrix,
        metrics |-> calculateMetrics(confusionMatrix), rocCurve |-> roc.points]

\* variant: the first class label is the positive class
EvaluationFrom_FirstLabelPositive(predictions, confusionMatrix) ==
  EvaluationWith(
    [matrix |-> confusionMatrix.matrix, classLabels |-> confusionMatrix.classLabels],
    IF Len(confusionMatrix.classLabels) = 2
    THEN generateROCCurve([i \in 1..Len(predictions) |-> predictions[i].actual],
                          [i \in 1..Len(predictions) |->
                             IF predictions[i].predicted = confusionMatrix.classLabels[1]
                             THEN Int2Num(1) ELSE Int2Num(0)],
                          confusionMatrix.classLabels[1], DefaultThresholds)
    ELSE [error |-> "", points |-> NoCurve])

\* evaluateTree from the confusion matrix on
EvaluationFrom(predictions, confusionMatrix) ==
  EvaluationWith(
    [matrix |-> confusionMatrix.matrix, classLabels |-> confusionMatrix.classLabels],
    IF Len(confusionMatrix.classLabels) = 2
    THEN generateROCCurve([i \in 1..Len(predictions) |-> predictions[i].actual],
                          [i \in 1..Len(predictions) |->
                             IF predictions[i].predicted = confusionMatrix.classLabels[2]
                             THEN Int2Num(1) ELSE Int2Num(0)],
                          confusionMatrix.classLabels[2], DefaultThresholds)
    ELSE [error |-> "", points |-> NoCurve])

\* evaluateTree from the predictions on
EvaluationOf(predictions) ==
  EvaluationFrom(predictions,
                 createConfusionMatrix([i \in 1..Len(predictions) |-> predictions[i].actual],
                                       [i \in 1..Len(predictions) |-> predictions[i].predicted]))

\* an evaluation whose predictions array outlives the call: it still holds
\* the instances of the call before
evaluateTree_KeptPredictions(root, instances) ==
  EvaluationOf(Predictions(root, IF evaluations = <<>> THEN instances
                                 ELSE evaluations[Len(evaluations)].instances \o instances))

\* TreeEngine.evaluateTree on the current tree
evaluateTree(root, instances) == EvaluationOf(Predictions(root, instances))

MaxEvals == 2

\* a test set with an instance that has no class
DataUnlabelled ==
  << Inst(1, IntV(1), IntV(1), IntV(1), "x"), Inst(2, IntV(2), IntV(3), IntV(2), NoClass),
     Inst(3, IntV(2), IntV(1), IntV(3), "y") >>

\* DataNumeric with a decision column coded 1 and 0
DataBinary ==
  << Inst(1, IntV(1), IntV(1), Undef, "1"), Inst(2, IntV(1), IntV(2), Undef, ZeroClass),
     Inst(3, IntV(2), IntV(1), Undef, ZeroClass), Inst(4, IntV(2), IntV(3), Undef, ZeroClass) >>

\* test sets of one class, on rows of DataNumeric that lie in different leaves
DataAllY ==
  << Inst(1, IntV(1), IntV(1), Undef, "y"), Inst(2, IntV(2), IntV(3), Undef, "y") >>

DataAllX ==
  << Inst(1, IntV(1), IntV(1), Undef, "x"), Inst(2, IntV(2), IntV(3), Undef, "x") >>

\* the instance sets a caller evaluates on
EvalSets == Datasets \cup {DataUnlabelled, DataBinary, DataAllY, DataAllX}

\* buildTrees over one of the data sets
InitEval ==
  \E d \in Datasets \cup {DataBinary}, alg \in Registry, depth \in DepthChoices :
    buildTreesDone(d, alg, MkConfig(alg, depth),
           buildTree(alg, d, MkConfig(alg, depth), 0, <<>>))

\* one call of evaluateTree, recorded with the tree and the instances as they
\* are before and after it
evaluateTreeCall(instances) ==
  /\ Len(evaluations) < MaxEvals
  /\ evaluations' = Append(evaluations,
                           [instances |-> instances, root |-> tree.root,
                            result |-> evaluateTree(tree.root, instances),
                            rootAfter |-> tree.root, instancesAfter |-> instances])
  /\ UNCHANGED <<dataset, tree, prev, last, clean, nops, pending, call>>

NextEval == \E instances \in EvalSets : evaluateTreeCall(instances)

SpecEval == InitEval /\ [][NextEval]_vars

(* --------------------------- TreeEngineProvider ------------------------ *)
\* The provider keeps, next to the tree, the evaluation it shows for it: the
\* result of the last record of evaluations.

\* one evaluation, recorded as evaluateTreeCall records it
Evaluated(root, instances) ==
  [instances |-> instances, root |-> root, result |-> evaluateTree(root, instances),
   rootAfter |-> root, instancesAfter |-> instances]

\* omicsData[omicsType].training.instances: the instances as they were
\* loaded, without the class that buildTrees gives its labelled copies
TrainingInstances == [i \in 1..Len(dataset) |-> [dataset[i] EXCEPT !.class = NoClass]]

\* omicsData[omicsType]?.training?.instances || []: omicsData has the key
\* omicsType or has not
ReevaluationInputs == {TrainingInstances, <<>>}

\* buildTrees: the tree over the labelled copies and its evaluation over them
InitProvider ==
  \E d \in Datasets, alg \in Registry, depth \in DepthChoices :
    \E built \in {buildTree(alg, d, MkConfig(alg, depth), 0, <<>>)} :
      /\ built.error = ""
      /\ evaluateTree(built.root, d).error = ""
      /\ dataset = d
      /\ tree = [root |-> built.root, config |-> MkConfig(alg, depth)]
      /\ prev = built.root
      /\ last = Op("buildTrees", BogusId, alg, <<>>, "ok", "")
      /\ clean = TRUE
      /\ nops = 0
      /\ pending = <<>>
      /\ evaluations = <<Evaluated(built.root, d)>>
      /\ call = NoCall

\* the engine method has resolved: setTrees, then evaluateTree over the
\* instances of omicsData and setEvaluations; a throw of either ends in catch
Reevaluate(o, instances) ==
  /\ tree' = [tree EXCEPT !.root = o.root]
  /\ prev' = tree.root
  /\ last' = o.op
  /\ clean' = (clean /\ o.op.result = "ok")
  /\ nops' = nops + 1
  /\ evaluations' = IF o.op.result = "ok" /\ evaluateTree(o.root, instances).error = ""
                    THEN Append(evaluations, Evaluated(o.root, instances))
                    ELSE evaluations
  /\ UNCHANGED <<dataset, pending, call>>

\* TreeEngineProvider.applyDistribution
applyDistribution(nodeId, test, instances) ==
  /\ nops < MaxOps
  /\ \E o \in {Changed(nodeId, test)} : Reevaluate(o, instances)

\* TreeEngineProvider.rebuildSubtree
ProviderRebuildSubtree(nodeId, algorithm, test, instances) ==
  /\ nops < MaxOps
  /\ \E o \in {Rebuilt(nodeId, algorithm, test)} : Reevaluate(o, instances)

NextProvider ==
  \/ \E id \in IdInputs, t \in TestInputs, instances \in ReevaluationInputs :
       applyDistribution(id, t, instances)
  \/ \E id \in IdInputs, alg \in AlgInputs, ct \in {<<>>} \cup {<<t>> : t \in TestInputs},
        instances \in ReevaluationInputs :
       ProviderRebuildSubtree(id, alg, ct, instances)
  \/ \E id \in IdInputs : makeLeaf(id)
  \/ \E id \in IdInputs, alg \in AlgInputs : unfoldLeafOnce(id, alg)
  \/ \E id \in IdInputs, alg \in AlgInputs : unfoldLeafFully(id, alg)

SpecProvider == InitProvider /\ [][NextProvider]_vars

(* ------------------------- auxiliary definitions ----------------------- *)
RECURSIVE Elements(_)
\* the elements reachable from an element
Elements(el) ==
  {el} \cup (IF el.type = "node"
             THEN Elements(el.children[1]) \cup Elements(el.children[2])
             ELSE {})

\* class distributions are compared as mappings, whatever the key order
SameDist(d1, d2) == Range(d1) = Range(d2)

SameStats(s1, s2) ==
  /\ s1.totalInstances = s2.totalInstances
  /\ s1.entropy = s2.entropy
  /\ SameDist(s1.classDistribution, s2.classDistribution)

CountOf(dist, label) ==
  IF \E i \in 1..Len(dist) : dist[i].label = label
  THEN dist[CHOOSE i \in 1..Len(dist) : dist[i].label = label].count
  ELSE 0

\* the target of the last operation, as it was before and as it is now
OldTarget == findNodeById(prev, last.nodeId)

NewTarget == findNodeById(tree.root, last.nodeId)

\* the branches the algorithm that produced a test handed to the two children
BuildSplits(test, instances) ==
  IF test.algorithm = "C4.5"
  THEN IF test.condition = "<="
       THEN C45NumericSplits(instances, test.attribute, ToNumber(test.value))
       ELSE C45CategoricalSplits(instances, test.attribute, test.value)
  ELSE splitInstances(instances, test)

RECURSIVE BuildAgreesWithReplay(_, _)
BuildAgreesWithReplay(el, instances) ==
  IF el.type = "leaf" THEN TRUE
  ELSE LET handed == BuildSplits(el.test, instances)
       IN /\ handed = splitInstances(instances, el.test)
          /\ BuildAgreesWithReplay(el.children[1], handed[1])
          /\ BuildAgreesWithReplay(el.children[2], handed[2])

RECURSIVE SameStructure(_, _)
\* same ids, kinds, tests, alternatives and child order; statistics and leaf
\* summaries are free
SameStructure(old, new) ==
  /\ old.id = new.id
  /\ old.type = new.type
  /\ IF old.type = "leaf" THEN TRUE
     ELSE /\ old.test = new.test
          /\ old.alternativeSplits = new.alternativeSplits
          /\ Len(old.children) = Len(new.children)
          /\ \A i \in 1..Len(old.children) : SameStructure(old.children[i], new.children[i])

(* -------------------------------- claims ------------------------------- *)

\* C1: after successfully completed mutations only, every reachable element's
\* statistics equal calculateStats of the instances getInstancesForNode
\* returns for it, and every Leaf's classDistribution is that distribution.
C1_StatisticsFollowInstances ==
  clean =>
    \A e \in Elements(tree.root) :
      LET now == calculateStats(getInstancesForNode(e.id))
      IN /\ SameStats(e.statistics, now)
         /\ e.type = "leaf" => SameDist(e.classDistribution, now.classDistribution)

\* C2: in a tree returned by buildTree every Node's totalInstances is the sum
\* of the totalInstances of its two children.
C2_TotalsAddUp ==
  nops = 0 =>
    \A e \in Elements(tree.root) :
      e.type = "node" =>
        e.statistics.totalInstances =
          e.children[1].statistics.totalInstances + e.children[2].statistics.totalInstances

\* C3: in a built tree the instances handed to children[0] at build time are
\* exactly the node's instances on which evaluate(instance, node.test) is
\* true, and children[1] received the rest.
C3_BuildSplitIsReplay ==
  nops = 0 => BuildAgreesWithReplay(tree.root, dataset)

\* C4: a rebuildSubtree that fails after its node-kind check leaves the tree
\* exactly as it was.
C4_FailedRebuildKeepsTree ==
  (last.op = "rebuildSubtree" /\ last.result = "threw" /\ last.error # "Invalid node")
    => tree.root = prev

\* C5: unfoldLeafOnce / unfoldLeafFully on a Leaf with canExpand = false never
\* yields a Node: the element stays a Leaf with the same id, predictedClass
\* and statistics, or the call is rejected with the tree unchanged.
C5_PureLeafStaysLeaf ==
  ( /\ last.op \in {"unfoldLeafOnce", "unfoldLeafFully"}
    /\ OldTarget # <<>> /\ OldTarget[1].type = "leaf" /\ ~OldTarget[1].canExpand )
    => \/ last.result = "threw" /\ tree.root = prev
       \/ /\ NewTarget # <<>>
          /\ NewTarget[1].type = "leaf"
          /\ NewTarget[1].predictedClass = OldTarget[1].predictedClass
          /\ SameStats(NewTarget[1].statistics, OldTarget[1].statistics)

\* C6: applyDistributionChange and rebuildSubtree raise 'Invalid node' and
\* leave the tree identical whenever the id resolves to nothing or to a Leaf.
C6_InvalidNodeRejected ==
  ( /\ last.op \in {"applyDistributionChange", "rebuildSubtree"}
    /\ (OldTarget = <<>> \/ OldTarget[1].type = "leaf") )
    => /\ last.result = "threw"
       /\ last.error = "Invalid node"
       /\ tree.root = prev

\* C6 witness: applyDistributionChange was called on a Leaf and rejected
C6_Witness ==
  /\ last.op = "applyDistributionChange"
  /\ OldTarget # <<>> /\ OldTarget[1].type = "leaf"
  /\ last.error = "Invalid node"

\* C7: every mutation operation raises 'Invalid node' to its caller when the
\* id does not resolve, and the unfold operations also when it resolves to a
\* Node.
C7_EveryOperationRaisesInvalidNode ==
  ( /\ last.op \in {"applyDistributionChange", "rebuildSubtree", "makeLeaf",
                    "unfoldLeafOnce", "unfoldLeafFully"}
    /\ \/ OldTarget = <<>>
       \/ /\ last.op \in {"unfoldLeafOnce", "unfoldLeafFully"}
          /\ OldTarget[1].type = "node" )
    => last.result = "threw" /\ last.error = "Invalid node"

\* C8: a successful applyDistributionChange changes the target's test to
\* newTest and, below the target, statistics and leaf summaries only: ids,
\* kinds, child order, descendant tests, the target's alternativeSplits and
\* statistics, and everything outside the target's subtree stay as they were.
C8_ApplyFrame ==
  (last.op = "applyDistributionChange" /\ last.result = "ok")
    => /\ NewTarget # <<>>
       /\ NewTarget[1].id = OldTarget[1].id
       /\ NewTarget[1].type = "node"
       /\ NewTarget[1].test = last.test[1]
       /\ NewTarget[1].alternativeSplits = OldTarget[1].alternativeSplits
       /\ NewTarget[1].statistics = OldTarget[1].statistics
       /\ Len(NewTarget[1].children) = Len(OldTarget[1].children)
       /\ \A i \in 1..Len(OldTarget[1].children) :
            SameStructure(OldTarget[1].children[i], NewTarget[1].children[i])
       /\ tree.root = ReplaceById(prev, last.nodeId, NewTarget[1])

\* C8 witness: a successful applyDistributionChange on a Node that has a Node
\* below it, after which some descendant statistics differ
C8_Witness ==
  /\ last.op = "applyDistributionChange" /\ last.result = "ok"
  /\ \E i \in 1..2 : OldTarget[1].children[i].type = "node"
  /\ \E i \in 1..2 : NewTarget[1].children[i].statistics # OldTarget[1].children[i].statistics

\* C9: after a successful rebuildSubtree the node keeps its id, its test is
\* customTest when supplied and the previous test otherwise, its children are
\* fresh builds by the named algorithm over the reaching instances that
\* satisfy / do not satisfy that test, no former descendant is in the tree,
\* and nothing outside the node's subtree changed.
C9_RebuildResult ==
  (last.op = "rebuildSubtree" /\ last.result = "ok")
    => /\ NewTarget # <<>>
       /\ NewTarget[1].type = "node"
       /\ NewTarget[1].test = (IF last.test # <<>> THEN last.test[1] ELSE OldTarget[1].test)
       /\ LET reaching == getInstancesForNode(last.nodeId)
              sat == {x \in Range(reaching) : evaluate(x, NewTarget[1].test)}
              groups == << SelectSeqBy(reaching, sat),
                           SelectSeqBy(reaching, Range(reaching) \ sat) >>
          IN \A i \in 1..2 :
               LET fresh == buildTree(last.algorithm, groups[i], tree.config,
                                      NewTarget[1].children[i].id.g, <<i - 1>>)
               IN fresh.error = "" /\ NewTarget[1].children[i] = fresh.root
       /\ \A d \in ElementIds(OldTarget[1]) \ {last.nodeId} : findNodeById(tree.root, d) = <<>>
       /\ tree.root = ReplaceById(prev, last.nodeId, NewTarget[1])

\* C9 witness: a rebuild with a supplied test that differs from the old one,
\* one of the new children being a Node
C9_Witness ==
  /\ last.op = "rebuildSubtree" /\ last.result = "ok"
  /\ last.test # <<>> /\ last.test[1] # OldTarget[1].test
  /\ \E i \in 1..2 : NewTarget[1].children[i].type = "node"

AsBuilt(el, built) ==
  /\ el.type = built.type
  /\ el.statistics = built.statistics
  /\ IF built.type = "leaf"
     THEN /\ el.predictedClass = built.predictedClass
          /\ el.classDistribution = built.classDistribution
          /\ el.canExpand = built.canExpand
     ELSE /\ el.test = built.test
          /\ el.alternativeSplits = built.alternativeSplits
          /\ el.children = built.children

\* C11: a successful unfoldLeafOnce on a Leaf with canExpand = true leaves,
\* under the leaf's id, the root of a build over the leaf's reaching instances
\* with maxDepth 1: a Leaf, or a Node whose two children are Leaves; every
\* other element of the tree is unchanged.
C11_UnfoldOnceResult ==
  (last.op = "unfoldLeafOnce" /\ last.result = "ok" /\ OldTarget[1].canExpand)
    => /\ NewTarget # <<>>
       /\ \/ NewTarget[1].type = "leaf"
          \/ /\ NewTarget[1].type = "node"
             /\ Len(NewTarget[1].children) = 2
             /\ \A i \in 1..2 : NewTarget[1].children[i].type = "leaf"
       /\ LET fresh == buildTree(last.algorithm,
                                 InstancesFor(dataset, prev, last.nodeId),
                                 [tree.config EXCEPT !.maxDepth = 1,
                                                     !.algorithms = <<last.algorithm>>],
                                 FreshGen(prev), <<>>)
          IN fresh.error = "" /\ AsBuilt(NewTarget[1], fresh.root)
       /\ tree.root = ReplaceById(prev, last.nodeId, NewTarget[1])

\* C11 witness: the unfolded leaf has become a Node, in a tree whose own
\* maxDepth is larger than 1
C11_Witness ==
  /\ last.op = "unfoldLeafOnce" /\ last.result = "ok"
  /\ OldTarget[1].type = "leaf" /\ OldTarget[1].canExpand
  /\ NewTarget # <<>> /\ NewTarget[1].type = "node"
  /\ tree.config.maxDepth > 1

\* C12: getInstancesForNode of the root is the whole dataset, and for every
\* Node the instances of its first child are exactly the node's instances
\* that satisfy the node's current test, those of the second child the rest.
C12_ReplayFollowsCurrentTests ==
  /\ getInstancesForNode(tree.root.id) = dataset
  /\ \A n \in Elements(tree.root) :
       n.type = "node" =>
         \A i \in 1..2 :
           getInstancesForNode(n.children[i].id)
             = splitInstances(getInstancesForNode(n.id), n.test)[i]

\* C12 witness: applyDistributionChange has given a Node a test under which
\* other instances reach its first child than before the change
C12_Witness ==
  /\ last.op = "applyDistributionChange" /\ last.result = "ok"
  /\ NewTarget[1].test # OldTarget[1].test
  /\ getInstancesForNode(NewTarget[1].children[1].id)
       # InstancesFor(dataset, prev, OldTarget[1].children[1].id)
  /\ getInstancesForNode(NewTarget[1].children[1].id) # <<>>

\* a rebuildSubtree is between the assignment of node.test and that of
\* node.children
HalfDone(k) ==
  LET found == findNodeById(tree.root, pending[k].nodeId)
  IN /\ pending[k].op = "rebuildSubtree"
     /\ found # <<>>
     /\ pending[k].test # <<>>
     /\ found[1].test = pending[k].test[1]
     /\ \A i \in 1..Len(found[1].children) : found[1].children[i].id.g # pending[k].g

\* C13: no state in which another call can run shows a rebuildSubtree that
\* has replaced node.test and not yet node.children.
C13_NoHalfDoneRebuild == \A k \in 1..Len(pending) : ~HalfDone(k)

\* C14: no mutation starts while an earlier one on the tree is awaiting: as
\* long as a call is suspended no other operation has completed and no other
\* call is suspended.
C14_MutationsAreSerialized ==
  /\ Len(pending) <= 1
  /\ \A k \in 1..Len(pending) : pending[k].at = nops

\* C15: the points generateROCCurve returns for the default thresholds, the
\* two end points included, are ordered by fpr: fpr never decreases along the
\* sequence.
C15_ROCPointsOrderedByFPR ==
  (call.fn = "generateROCCurve" /\ call.result.error = "")
    => \A i \in 1..(Len(call.result.points) - 1) :
         NumLe(call.result.points[i].fpr, call.result.points[i + 1].fpr)

\* the ids of a list of instances, in order
Ids(instances) == [i \in 1..Len(instances) |-> instances[i].id]

\* ids is strictly increasing
Increasing(ids) == \A j \in 1..Len(ids), k \in 1..Len(ids) : j < k => ids[j] < ids[k]

\* C16: splitInstances returns two branches whose sizes add up to the size of
\* the input, every instance of the input is in exactly one of them, each
\* branch keeps the order of the input, and the input list is unchanged.
C16_SplitIsPartition ==
  call.fn = "splitInstances"
    => /\ Len(call.result.branches) = 2
       /\ Len(call.result.branches[1]) + Len(call.result.branches[2]) = Len(call.args[1])
       /\ \A i \in 1..Len(call.args[1]) :
            (call.args[1][i] \in Range(call.result.branches[1]))
              # (call.args[1][i] \in Range(call.result.branches[2]))
       /\ Range(call.result.branches[1]) \cup Range(call.result.branches[2])
            = Range(call.args[1])
       /\ Increasing(Ids(call.result.branches[1]))
       /\ Increasing(Ids(call.result.branches[2]))
       /\ call.result.instances = call.args[1]

\* a three-instance list with a missing value, split by a < 1 into two
\* non-empty branches; the instance without a value is in the second
C16_Witness ==
  /\ call.fn = "splitInstances"
  /\ Len(call.args[1]) = 3
  /\ call.args[2].condition = "<"
  /\ call.result.branches[1] # <<>>
  /\ \E i \in Range(call.result.branches[2]) : i.values[A] = Undef
\* the position of a label in the order of Array.prototype.sort()
LabelRank(l) == CHOOSE i \in 1..Len(LabelOrder) : LabelOrder[i] = l

\* the sum of all cells of a matrix over the given labels
CellSum(matrix, labels) ==
  SumInts([i \in 1..Len(labels) |->
             SumInts([j \in 1..Len(labels) |-> matrix[labels[i]][labels[j]]])])

\* the sum of the diagonal of a matrix over the given labels
DiagonalSum(matrix, labels) ==
  SumInts([i \in 1..Len(labels) |-> matrix[labels[i]][labels[i]]])

\* C17: for arrays of equal length, createConfusionMatrix returns the sorted
\* union of the labels of both arrays and a matrix with a cell for every pair
\* of labels; the cells add up to the length of the arrays and the diagonal
\* adds up to the number of positions where the two arrays agree.
C17_ConfusionMatrixSums ==
  (call.fn = "createConfusionMatrix" /\ Len(call.args[1]) = Len(call.args[2]))
    => /\ call.result.error = ""
       /\ Range(call.result.classLabels) = Range(call.args[1]) \cup Range(call.args[2])
       /\ \A i \in 1..Len(call.result.classLabels), j \in 1..Len(call.result.classLabels) :
            i < j => LabelRank(call.result.classLabels[i]) < LabelRank(call.result.classLabels[j])
       /\ DOMAIN call.result.matrix = Range(call.result.classLabels)
       /\ \A a \in DOMAIN call.result.matrix :
            /\ DOMAIN call.result.matrix[a] = Range(call.result.classLabels)
            /\ \A p \in DOMAIN call.result.matrix[a] : call.result.matrix[a][p] \in Nat
       /\ CellSum(call.result.matrix, call.result.classLabels) = Len(call.args[1])
       /\ DiagonalSum(call.result.matrix, call.result.classLabels)
            = Cardinality({i \in 1..Len(call.args[1]) : call.args[1][i] = call.args[2][i]})

\* three samples, the later label first, one agreement and a label that
\* occurs only among the predictions (its row stays 0)
C17_Witness ==
  /\ call.fn = "createConfusionMatrix"
  /\ call.args[1] = <<"y", "x", "y">>
  /\ call.args[2] = <<"y", "Unknown", "x">>
  /\ call.result.classLabels = <<"Unknown", "x", "y">>
  /\ call.result.matrix["Unknown"]["y"] = 0
  /\ call.result.matrix["y"]["y"] = 1
RECURSIVE StripIds(_)
\* an element without the ids of its subtree
StripIds(el) ==
  [el EXCEPT !.id = BogusId,
             !.children = [i \in 1..Len(el.children) |-> StripIds(el.children[i])]]

BelowRatio(instances, attr1, attr2, w) ==
  {i \in 1..Len(instances) : NumLt(Ratio(instances[i], attr1, attr2), w)}

\* C20: two WTSP candidates on one pair of attributes whose weights cut the
\* instances, ordered by ratio, at different positions have different
\* matching branches under splitInstances.
C20_WeightDecidesTheSplit ==
  call.fn = "WTSP.candidates"
    => \A i \in 1..Len(call.result), j \in 1..Len(call.result) :
         (/\ call.result[i].test.attribute = call.result[j].test.attribute
          /\ call.result[i].test.value = call.result[j].test.value
          /\ BelowRatio(call.args[1], call.result[i].test.attribute,
                        call.result[i].test.value.s, call.result[i].test.weight[1])
               # BelowRatio(call.args[1], call.result[j].test.attribute,
                            call.result[j].test.value.s, call.result[j].test.weight[1]))
           => call.result[i].splits[1] # call.result[j].splits[1]
\* a test that sends every instance to the same branch
OneSided(instances, test) ==
  \E b \in 1..2 : splitInstances(instances, test)[b] = <<>>

\* C21: in a tree built by TSP or WTSP, no alternative split of a Node leaves
\* a branch empty on the instances that reach the Node.
C21_AlternativesAreValid ==
  (call.fn = "buildTree" /\ call.args[1] \in {"TSP", "WTSP"} /\ call.result[1].error = "")
    => \A el \in Elements(call.result[1].root) :
         el.type = "node"
           => \A k \in 1..Len(el.alternativeSplits) :
                ~OneSided(InstancesFor(call.args[2], call.result[1].root, el.id),
                          el.alternativeSplits[k])
RECURSIVE NodesSplitLegally(_, _, _)
\* no Node of the subtree of el, which lies at the given depth, meets a
\* stopping criterion on maxDepth, minInstancesPerLeaf or entropyThreshold
NodesSplitLegally(el, depth, config) ==
  el.type = "node"
    => /\ depth < config.maxDepth
       /\ el.statistics.totalInstances > config.minInstancesPerLeaf
       /\ el.statistics.entropy > config.entropyThreshold
       /\ \A i \in 1..Len(el.children) :
            NodesSplitLegally(el.children[i], depth + 1, config)

\* C22: in a tree returned by buildTree every Node lies at a depth below
\* config.maxDepth, was built from more than config.minInstancesPerLeaf
\* instances and has an entropy above config.entropyThreshold: where a
\* stopping criterion holds, the element is a Leaf.
C22_StoppingCriteria ==
  (call.fn = "buildTree" /\ call.result[1].error = "")
    => NodesSplitLegally(call.result[1].root, 0, call.args[3])

\* a build with maxDepth 3 and minInstancesPerLeaf 2 that split the root and
\* stopped below it
C22_Witness ==
  /\ call.fn = "buildTree"
  /\ call.result[1].error = ""
  /\ call.args[3].maxDepth = 3
  /\ call.args[3].minInstancesPerLeaf = 2
  /\ call.result[1].root.type = "node"
  /\ \E i \in 1..2 :
       /\ call.result[1].root.children[i].type = "leaf"
       /\ call.result[1].root.children[i].statistics.entropy > 0
\* the attributes a test reads
TestAttributes(test) ==
  IF test.isValueAttribute THEN {test.attribute, JsString(test.value)} ELSE {test.attribute}

RECURSIVE NoAttributeReused(_, _)
\* no test in the subtree of el reads an attribute of used, or an attribute
\* that a test above it in the subtree reads
NoAttributeReused(el, used) ==
  el.type = "node"
    => /\ TestAttributes(el.test) \cap used = {}
       /\ \A i \in 1..Len(el.children) :
            NoAttributeReused(el.children[i], used \cup TestAttributes(el.test))

\* C23: in a tree returned by buildTree the tests on a path from the root
\* read pairwise disjoint attributes, and no test reads an excluded attribute
\* or the decision attribute.
C23_AttributesUsedOnce ==
  (call.fn = "buildTree" /\ call.result[1].error = "")
    => NoAttributeReused(call.result[1].root,
                         call.args[3].excludedAttributes \cup {call.args[3].decisionAttribute})

\* a build without column a whose root and one child of the root are Nodes
C23_Witness ==
  /\ call.fn = "buildTree"
  /\ call.result[1].error = ""
  /\ call.args[3].excludedAttributes = {A}
  /\ call.result[1].root.type = "node"
  /\ \E i \in 1..2 : call.result[1].root.children[i].type = "node"
(* ------------------------ the calls of buildNode ----------------------- *)
\* one call of buildNode: its arguments, the element it returns and, for a
\* recursive call, the size and the pool of the call that made it
Frame(el, instances, depth, pool, parent) ==
  [el |-> el, instances |-> instances, depth |-> depth, pool |-> pool, parent |-> parent]

\* the attribute pool buildTree hands to the first call of buildNode
RootPool(alg, instances, config) ==
  IF alg = "C4.5" THEN CandidateAttributes(instances, config)
  ELSE NumericAttributes(instances, config)

\* the two recursive calls of a call that returns a Node
ChildFrames(f, remainingAttrs) ==
  [i \in 1..2 |->
     Frame(f.el.children[i], BuildSplits(f.el.test, f.instances)[i], f.depth + 1,
           remainingAttrs, << [size |-> Len(f.instances), pool |-> f.pool] >>)]

\* buildTree has made the first call of buildNode
buildTreeCalled(alg, instances, config, built) ==
  /\ built.error = ""
  /\ dataset = <<>>
  /\ tree = [root |-> NoElement, config |-> config]
  /\ prev = NoElement
  /\ last = Op("none", BogusId, "", <<>>, "ok", "")
  /\ clean = TRUE
  /\ nops = 0
  /\ pending = <<>>
  /\ evaluations = <<>>
  /\ call = [fn |-> "buildNode", args |-> <<alg, instances, config>>,
             result |-> << Frame(built.root, instances, 0,
                                 RootPool(alg, instances, config), <<>>) >>]

InitBuild ==
  \E alg \in Registry, d \in BuildSets :
    \E config \in BuildConfigs(alg) :
      buildTreeCalled(alg, d, config, buildTree(alg, d, config, 0, <<>>))

\* the call on top of the stack returns; a call that returns a Node has made
\* its two recursive calls first
buildNodeStep ==
  /\ call.result # <<>>
  /\ call' = [call EXCEPT !.result =
       (IF Head(call.result).el.type = "node"
        THEN ChildFrames(Head(call.result),
                         IF call.args[1] = "C4.5"
                         THEN C45RemainingAttrs(Head(call.result).pool,
                                                Head(call.result).el.test)
                         ELSE PairRemainingAttrs(Head(call.result).pool,
                                                 Head(call.result).el.test))
        ELSE <<>>) \o Tail(call.result)]
  /\ UNCHANGED <<dataset, tree, prev, last, clean, nops, pending, evaluations>>

NextBuild == buildNodeStep

\* a call that can return does return
SpecBuild == InitBuild /\ [][NextBuild]_vars /\ WF_vars(NextBuild)

\* every call lies at a depth of at most maxDepth, returns the element built
\* for its instances and, when it is recursive, has fewer instances and a
\* smaller pool than the call that made it
CallsShrink ==
  \A k \in 1..Len(call.result) :
    /\ call.result[k].depth <= call.args[3].maxDepth
    /\ call.result[k].el.statistics = calculateStats(call.result[k].instances)
    /\ Len(call.result[k].el.id.p) = call.result[k].depth
    /\ \A q \in 1..Len(call.result[k].parent) :
         /\ Len(call.result[k].instances) < call.result[k].parent[q].size
         /\ Range(call.result[k].pool) \subseteq Range(call.result[k].parent[q].pool)
         /\ Range(call.result[k].pool) # Range(call.result[k].parent[q].pool)

\* C24: buildTree terminates: every call of buildNode returns, the calls
\* nest at most config.maxDepth deep, and every recursive call gets fewer
\* instances and a strictly smaller attribute pool than its parent call.
C24_BuildTerminates == []CallsShrink /\ <>(call.result = <<>>)

\* a recursive call made by a recursive call
C24_Witness ==
  /\ call.fn = "buildNode"
  /\ \E k \in 1..Len(call.result) :
       /\ call.result[k].depth = 2
       /\ call.result[k].parent # <<>>
\* the leaf predicts a class of largest count, 'Unknown' without instances,
\* and can be expanded exactly when it holds two classes
LeafIsConsistent(el) ==
  /\ IF el.classDistribution = <<>> THEN el.predictedClass = "Unknown"
     ELSE \E i \in 1..Len(el.classDistribution) :
            /\ el.classDistribution[i].label = el.predictedClass
            /\ \A j \in 1..Len(el.classDistribution) :
                 el.classDistribution[j].count <= el.classDistribution[i].count
  /\ el.canExpand
       <=> Cardinality({i \in 1..Len(el.classDistribution) :
                          el.classDistribution[i].count > 0}) >= 2

\* C25: after a build and after every mutation, each Leaf predicts a class
\* of largest count in its classDistribution ('Unknown' when it is empty) and
\* has canExpand true exactly when the distribution holds at least two
\* classes.
C25_LeavesAreConsistent ==
  \A el \in Elements(tree.root) : el.type = "leaf" => LeafIsConsistent(el)

\* applyDistributionChange has refreshed a Leaf that holds two classes and
\* predicts one that is not the first of its distribution
C25_Witness ==
  /\ last.op = "applyDistributionChange"
  /\ last.result = "ok"
  /\ \E el \in Elements(tree.root) :
       /\ el.type = "leaf"
       /\ el.canExpand
       /\ el \notin Elements(prev)
       /\ el.predictedClass # el.classDistribution[1].label
\* the instances that have a class label
Labelled(instances) == SelectSeq(instances, LAMBDA i : i.class # NoClass)

\* the number of labelled instances of class a whose walk ends at a Leaf that
\* predicts p
PairCount(root, instances, a, p) ==
  Cardinality({i \in 1..Len(instances) :
                 /\ instances[i].class = a
                 /\ Descend(root, instances[i]).type = "leaf"
                 /\ Descend(root, instances[i]).predictedClass = p})

RECURSIVE Height(_)
\* the number of tests on the longest path from an element down to a Leaf
Height(el) ==
  IF el.type # "node" THEN 0
  ELSE 1 + Max({Height(el.children[i]) : i \in 1..Len(el.children)})

RECURSIVE DepthOf(_, _)
\* the depth of the element with the given id, which is in the tree
DepthOf(current, nodeId) ==
  IF current.id = nodeId THEN 0
  ELSE IF findNodeById(current.children[1], nodeId) # <<>>
  THEN 1 + DepthOf(current.children[1], nodeId)
  ELSE 1 + DepthOf(current.children[2], nodeId)

RECURSIVE ReusesAttribute(_, _)
\* a test in the subtree of el reads an attribute of used, or an attribute
\* that a test above it in the subtree reads
ReusesAttribute(el, used) ==
  /\ el.type = "node"
  /\ \/ TestAttributes(el.test) \cap used # {}
     \/ \E i \in 1..Len(el.children) :
          ReusesAttribute(el.children[i], used \cup TestAttributes(el.test))

\* C27: a successful rebuildSubtree or unfoldLeafFully builds from depth 0 at
\* its target: the subtree it leaves there is at most config.maxDepth deep
\* below the elements it attaches, so the tree is no deeper than before or
\* than depth(target) + 1 + config.maxDepth, whatever the depth of the target.
C27_DepthCountedFromTarget ==
  (last.op \in {"rebuildSubtree", "unfoldLeafFully"} /\ last.result = "ok")
    => /\ NewTarget # <<>>
       /\ Height(NewTarget[1])
            <= (IF last.op = "rebuildSubtree" THEN 1 ELSE 0) + tree.config.maxDepth
       /\ Height(tree.root)
            <= Max({Height(prev), DepthOf(prev, last.nodeId) + 1 + tree.config.maxDepth})

\* unfoldLeafFully on a Leaf at depth config.maxDepth has left a tree deeper
\* than config.maxDepth, in which the new test reads an attribute that the
\* test above it reads
C27_Witness ==
  /\ last.op = "unfoldLeafFully"
  /\ last.result = "ok"
  /\ DepthOf(prev, last.nodeId) = tree.config.maxDepth
  /\ Height(tree.root) > tree.config.maxDepth
  /\ ReusesAttribute(tree.root, {})
  /\ ~ReusesAttribute(prev, {})
\* the ids the last operation has brought into the tree
NewIds == ElementIds(tree.root) \ ElementIds(prev)

\* C28: after a successful makeLeaf(nodeId) no element of the tree has the id
\* nodeId: the converted element is a Leaf under one new 'leaf' id, at the
\* place of the target; after a successful unfoldLeafOnce or unfoldLeafFully
\* the target is still found under nodeId.
C28_MakeLeafChangesId ==
  /\ (last.op = "makeLeaf" /\ last.result = "ok")
       => /\ NewTarget = <<>>
          /\ Cardinality(NewIds) = 1
          /\ \A id \in NewIds :
               /\ id.t = "leaf"
               /\ findNodeById(tree.root, id)[1].type = "leaf"
               /\ tree.root = ReplaceById(prev, last.nodeId, findNodeById(tree.root, id)[1])
  /\ (last.op \in {"unfoldLeafOnce", "unfoldLeafFully"} /\ last.result = "ok")
       => /\ NewTarget # <<>>
          /\ tree.root = ReplaceById(prev, last.nodeId, NewTarget[1])

\* makeLeaf has converted a Node whose id began with 'node': the id is gone
\* from the tree and a 'leaf' id has come in
C28_Witness ==
  /\ last.op = "makeLeaf" /\ last.result = "ok"
  /\ OldTarget[1].type = "node" /\ last.nodeId.t = "node"
  /\ last.nodeId \notin ElementIds(tree.root)
  /\ \E id \in NewIds : id.t = "leaf"
\* the actual and predicted labels of a list of predictions
Actuals(predictions) == [i \in 1..Len(predictions) |-> predictions[i].actual]

Predicteds(predictions) == [i \in 1..Len(predictions) |-> predictions[i].predicted]

UsedLabels(predictions) == Range(Actuals(predictions)) \cup Range(Predicteds(predictions))

\* the later of two labels in sort order: classLabels[1]
PositiveClass(labels) ==
  CHOOSE l \in labels : \A m \in labels : LabelRank(m) <= LabelRank(l)

RequiresBoth == "ROC curve requires both positive and negative instances"

\* the result has the ROC curve of the actual labels against the indicator of
\* the positive class, or is the error when the actual labels are of one kind
HasCurveFor(result, actual, predicted, positive) ==
  IF positive \notin Range(actual) \/ Range(actual) = {positive}
  THEN result.error = RequiresBoth
  ELSE /\ result.error = ""
       /\ result.rocCurve # NoCurve
       /\ result.rocCurve
            = generateROCCurve(actual,
                               [i \in 1..Len(actual) |->
                                  IF predicted[i] = positive
                                  THEN Int2Num(1) ELSE Int2Num(0)],
                               positive, DefaultThresholds).points

\* the result is the one that goes with the predictions
CurveMatches(result, predictions) ==
  IF Cardinality(UsedLabels(predictions)) = 2
  THEN \A positive \in {PositiveClass(UsedLabels(predictions))} :
         HasCurveFor(result, Actuals(predictions), Predicteds(predictions), positive)
  ELSE result.error = "" /\ result.rocCurve = NoCurve

\* the predictions of the k-th evaluation
PredictionsOf(k) == Predictions(evaluations[k].root, evaluations[k].instances)

\* C29: evaluateTree returns a ROC curve exactly when the actual and predicted
\* labels together have two members, with the later label in sort order as
\* the positive class, and rocCurve undefined otherwise; with two labels of
\* which the actual labels hold no positive or only positives, the call fails
\* with the 'requires both positive and negative instances' error.
C29_CurveForTwoLabels ==
  \A k \in 1..Len(evaluations) :
    \A predictions \in {PredictionsOf(k)} : CurveMatches(evaluations[k].result, predictions)

\* one tree has been evaluated to a curve on one set and to the error on a
\* set of one class, for which it predicts two
C29_Witness ==
  \E j, k \in 1..Len(evaluations) :
    /\ evaluations[j].result.error = ""
    /\ evaluations[j].result.rocCurve # NoCurve
    /\ evaluations[k].result.error = RequiresBoth
    /\ Cardinality(Range(Actuals(PredictionsOf(k)))) = 1
    /\ Cardinality(Range(Predicteds(PredictionsOf(k)))) = 2
\* the evaluation the provider holds for the tree
StoredEvaluation == evaluations[Len(evaluations)].result

\* the mutations of the provider
Mutations ==
  {"applyDistributionChange", "rebuildSubtree", "makeLeaf", "unfoldLeafOnce", "unfoldLeafFully"}

\* C30: after every successful mutation the stored evaluation is that of the
\* mutated tree over the labelled training instances, and the cells of its
\* confusion matrix add up to the number of labelled training instances.
C30_StoredEvaluationIsCurrent ==
  (last.op \in Mutations /\ last.result = "ok")
    => /\ StoredEvaluation = evaluateTree(tree.root, dataset)
       /\ CellSum(StoredEvaluation.confusionMatrix.matrix,
                  StoredEvaluation.confusionMatrix.classLabels)
            = Len(Labelled(dataset))
====
